---- MODULE Spec2Model ----
(***************************************************************************)
(* Model of the adversarial-evaluation engine of the STAR post-market      *)
(* evaluation: the prediction client (src/src/STAR_model.py), the helpers  *)
(* (src/src/utils/data_helpers.py, generic_utils.py) and the concurrent    *)
(* harness (src/src/adversarial_evaluation.py).                            *)
(*                                                                         *)
(* Numbers that are floats in the program (glucose values, interval        *)
(* bounds) are fixed-point integers in hundredths (10.01 is 1001).         *)
(* Times are integers in milliseconds; sleeps are integers in seconds.     *)
(* An Optional value is a sequence: <<>> is None, <<x>> is the value x.     *)
(***************************************************************************)
EXTENDS Integers, Sequences, FiniteSets, TLC

\* ------------------------------------------------------------------ bounds
\* Largest number of JSON files in the directory handed to the harness.
NumFiles == 2
\* Largest num_retries a direct caller of predict passes.
MaxRetries == 4
\* Largest retry_delay (seconds) a direct caller of predict passes.
MaxDelay == 2

\* ------------------------------------------------------- program constants
\* predict(num_retries=3)
DefaultNumRetries == 3
\* predict(retry_delay=2.0)
DefaultRetryDelay == 2
\* parallel_predict_patients(max_workers=10)
DefaultMaxWorkers == 10
\* 180 * 60 * 1000 in _validate_prediction_time
PredictionWindowMs == 180 * 60 * 1000

None == <<>>
Some(x) == <<x>>
IsNone(o) == o = <<>>
Get(o) == o[1]

\* Threads 1..NumFiles are the harness's per-file tasks (task t processes
\* the t-th file); one more thread is a direct caller of the client.
Client == NumFiles + 1
Tasks == 1..NumFiles
Threads == {Client} \cup Tasks

\* ----------------------------------------------------------- patient data
\* A JSON object is a function from its keys to their values.
HasKey(obj, k) == k \in DOMAIN obj

\* An episode with the given channels present; bg is the bloodGlucose series
\* (a sequence of <<timestamp, value>> events), the other channels are empty.
Episode(channels, bg) ==
    [k \in channels |-> IF k = "bloodGlucose" THEN bg ELSE <<>>]

\* A patient record with the given top-level keys.
Patient(keys, updateTime, episodes) ==
    [k \in keys |->
        CASE k = "__class" -> <<"Patient">>
          [] k = "hospitalID" -> <<"H1">>
          [] k = "updateTime" -> <<updateTime>>
          [] k = "episodes" -> episodes]

TopKeys == {"__class", "hospitalID", "updateTime", "episodes"}
PredictChannels == {"bloodGlucose", "insulinInfusion", "nutritionInfusion"}
\* The updateTime (ms) of the records of the model.
UpdateTime == 1000

\* _validate_patient_data: the message of the ValueError it raises, or None.
\* Fields are checked in the order of required_fields; the episode fields are
\* looked up in episodes[0] only.
MissingIn(obj, fields) ==
    LET RECURSIVE first(_)
        first(i) == IF i > Len(fields) THEN None
                    ELSE IF ~HasKey(obj, fields[i]) THEN Some(fields[i])
                    ELSE first(i + 1)
    IN first(1)

\* A validation that accepts the channels in any episode.
_validate_patient_data_AnyEpisode(patient_data) ==
    LET top == MissingIn(patient_data,
                         <<"__class", "hospitalID", "updateTime", "episodes">>)
    IN IF ~IsNone(top) THEN Some("ValueError: Missing required field in patient data")
       ELSE IF patient_data["episodes"] = <<>>
            THEN Some("ValueError: Patient data must contain at least one episode")
       ELSE IF \A i \in 1..Len(patient_data["episodes"]) :
                 ~IsNone(MissingIn(patient_data["episodes"][i],
                         <<"bloodGlucose", "insulinInfusion", "nutritionInfusion">>))
            THEN Some("ValueError: Missing required field in episode")
       ELSE None

_validate_patient_data(patient_data) ==
    LET top == MissingIn(patient_data,
                         <<"__class", "hospitalID", "updateTime", "episodes">>)
    IN IF ~IsNone(top) THEN Some("ValueError: Missing required field in patient data")
       ELSE IF patient_data["episodes"] = <<>>
            THEN Some("ValueError: Patient data must contain at least one episode")
       ELSE IF ~IsNone(MissingIn(patient_data["episodes"][1],
                       <<"bloodGlucose", "insulinInfusion", "nutritionInfusion">>))
            THEN Some("ValueError: Missing required field in episode")
       ELSE None

\* A validation whose upper bound is exclusive.
_validate_prediction_time_Exclusive(patient_data, prediction_time) ==
    LET update_time == patient_data["updateTime"][1]
        max_time == update_time + PredictionWindowMs
    IN IF prediction_time < update_time
       THEN Some("ValueError: Prediction time must be >= updateTime")
       ELSE IF prediction_time >= max_time
       THEN Some("ValueError: Prediction time must be <= updateTime + 180 minutes")
       ELSE None

\* _validate_prediction_time: the message of the ValueError it raises, or None.
_validate_prediction_time(patient_data, prediction_time) ==
    LET update_time == patient_data["updateTime"][1]
        max_time == update_time + PredictionWindowMs
    IN IF prediction_time < update_time
       THEN Some("ValueError: Prediction time must be >= updateTime")
       ELSE IF prediction_time > max_time
       THEN Some("ValueError: Prediction time must be <= updateTime + 180 minutes")
       ELSE None

\* ------------------------------------------------------------ the endpoint
\* What one requests.post call can produce: an exception of the transport, a
\* non-2xx status, a 2xx body that is not JSON, or a 2xx JSON object.
Interval(lo, hi) == [BG5TH |-> lo, BG95TH |-> hi]
Intervals == {Interval(500, 1000), Interval(600, 800)}
Bodies == Intervals \cup {[BG5TH |-> 500], [BG95TH |-> 1000]}
Failures == {"Timeout", "ConnectionError", "HTTPError", "BadJSON"}
Responses == [kind : Failures] \cup {[kind |-> "Body", body |-> b] : b \in Bodies}

\* The exception raised inside the try block of predict for a response, or
\* None: post raises Timeout / ConnectionError, raise_for_status raises
\* HTTPError, response.json() raises requests' JSONDecodeError, and the
\* membership test raises ValueError.
RaisedInTry(r) ==
    CASE r.kind = "Timeout" -> Some("Timeout")
      [] r.kind = "ConnectionError" -> Some("ConnectionError")
      [] r.kind = "HTTPError" -> Some("HTTPError")
      [] r.kind = "BadJSON" -> Some("JSONDecodeError")
      [] r.kind = "Body" ->
           IF ~HasKey(r.body, "BG5TH") \/ ~HasKey(r.body, "BG95TH")
           THEN Some("ValueError") ELSE None

\* Handlers that treat a ValueError of the try block like a transport error.
ExceptClause_RetryValueError(e) ==
    CASE e = "Timeout" -> "Timeout"
      [] e \in {"ConnectionError", "HTTPError", "JSONDecodeError", "ValueError"} ->
           "RequestException"

\* Handlers that take an HTTP error status for a data error.
ExceptClause_HttpErrorFatal(e) ==
    CASE e = "Timeout" -> "Timeout"
      [] e \in {"ConnectionError", "JSONDecodeError"} -> "RequestException"
      [] e \in {"ValueError", "HTTPError"} -> "ValueError"

\* The except clause of predict that catches an exception, in clause order:
\* requests.exceptions.Timeout, then requests.exceptions.RequestException
\* (requests' JSONDecodeError derives from it), then ValueError / KeyError /
\* json.JSONDecodeError.
ExceptClause(e) ==
    CASE e = "Timeout" -> "Timeout"
      [] e \in {"ConnectionError", "HTTPError", "JSONDecodeError"} -> "RequestException"
      [] e = "ValueError" -> "ValueError"

\* A linear backoff.
WaitTime_Linear(retry_delay, attempt) == retry_delay * (attempt + 1)

\* wait_time = retry_delay * (2**attempt)
WaitTime(retry_delay, attempt) == retry_delay * (2 ^ attempt)

\* if attempt < num_retries - 1: sleep and go round again, else give up
RetryAgain(attempt, num_retries) == attempt < num_retries - 1

\* The interval with its bounds taken from the wrong fields.
PredictionInterval_Swapped(body) == Interval(body.BG95TH, body.BG5TH)

\* {"BG5TH": result["BG5TH"], "BG95TH": result["BG95TH"]}
PredictionInterval(body) == Interval(body.BG5TH, body.BG95TH)

\* for attempt in range(num_retries): whether the loop body runs for attempt
InRange(attempt, num_retries) == attempt < num_retries

\* --------------------------------------------------------------- helpers
\* extract_prediction_info: the exception the subscripts raise, or None.
ExtractError(patient_data) ==
    IF ~HasKey(patient_data, "episodes") THEN Some("KeyError: 'episodes'")
    ELSE IF patient_data["episodes"] = <<>> THEN Some("IndexError: list index out of range")
    ELSE IF ~HasKey(patient_data["episodes"][1], "bloodGlucose")
         THEN Some("KeyError: 'bloodGlucose'")
    ELSE IF patient_data["episodes"][1]["bloodGlucose"] = <<>>
         THEN Some("IndexError: list index out of range")
    ELSE None

\* extract_prediction_info: <<pred_time, actual_value>> of blood_glucose[-1]
\* of episodes[0].
extract_prediction_info(patient_data) ==
    LET blood_glucose == patient_data["episodes"][1]["bloodGlucose"]
        last_episode_to_predict == blood_glucose[Len(blood_glucose)]
    IN <<last_episode_to_predict[1], last_episode_to_predict[2]>>

\* calculate_interval_midpoint: (BG5TH + BG95TH) / 2.0; the intervals of the
\* model have an even sum of hundredths, so the division is exact.
calculate_interval_midpoint(interval) ==
    (interval.BG5TH + interval.BG95TH) \div 2

\* The check with the upper end excluded.
IsInside_Exclusive(interval, ground_truth) ==
    IF interval.BG5TH <= ground_truth /\ ground_truth < interval.BG95TH THEN 1 ELSE 0

\* is_inside = int(bg_5th <= ground_truth <= bg_95th)
IsInside(interval, ground_truth) ==
    IF interval.BG5TH <= ground_truth /\ ground_truth <= interval.BG95TH THEN 1 ELSE 0

\* def validate_prediction(self, ground_truth): binding a call's keyword
\* arguments to the parameters raises TypeError for an unexpected keyword or
\* a missing required parameter.
ValidatePredictionParams == {"ground_truth"}
BindError(params, kwargs) ==
    IF kwargs \ params # {}
    THEN Some("TypeError: got an unexpected keyword argument")
    ELSE IF params \ kwargs # {}
    THEN Some("TypeError: missing required positional argument")
    ELSE None

\* The keyword arguments process_single_patient passes to validate_prediction.
HarnessCheckKwargs == {"interval", "ground_truth"}

\* The messages of the exceptions the model raises, by class.
ValueErrors ==
    {"ValueError: Missing required field in patient data",
     "ValueError: Patient data must contain at least one episode",
     "ValueError: Missing required field in episode",
     "ValueError: Prediction time must be >= updateTime",
     "ValueError: Prediction time must be <= updateTime + 180 minutes"}
UpstreamErrors ==
    {"RuntimeError: API request timed out", "RuntimeError: API request failed"}

\* A handler that catches ValueError only.
CaughtByHarness_ValueErrorOnly(e) == e \in ValueErrors

\* except Exception as e: in process_single_patient
CaughtByHarness(e) == TRUE

\* The outcome dictionaries process_single_patient returns.
SuccessOutcome(filepath, actual_value, pred_interval, interval_center, is_in_range) ==
    [file_name |-> filepath,
     ground_truth |-> Some(actual_value),
     BG5TH |-> Some(pred_interval.BG5TH),
     BG95TH |-> Some(pred_interval.BG95TH),
     interval_center |-> Some(interval_center),
     is_in_range |-> Some(is_in_range),
     success |-> TRUE,
     error_message |-> None]

\* A failure dictionary that leaves the error message out.
FailureOutcome_NoMessage(filepath, e) ==
    [file_name |-> filepath,
     ground_truth |-> None,
     BG5TH |-> None,
     BG95TH |-> None,
     interval_center |-> None,
     is_in_range |-> None,
     success |-> FALSE,
     error_message |-> None]

\* except Exception as e: return {... "success": False, "error_message": str(e)}
FailureOutcome(filepath, e) ==
    [file_name |-> filepath,
     ground_truth |-> None,
     BG5TH |-> None,
     BG95TH |-> None,
     interval_center |-> None,
     is_in_range |-> None,
     success |-> FALSE,
     error_message |-> Some(e)]

\* ------------------------------------------------------------------ state
VARIABLES
    files,            \* the directory: sequence of file contents, sorted by name
    max_workers,      \* width of the ThreadPoolExecutor
    main_pc,          \* parallel_predict_patients: "idle", "collect", "returned", "raised"
    futures,          \* per task: None while pending, else the finished future
    results,          \* the results list of parallel_predict_patients
    pc,               \* per thread: position in process_single_patient / predict
    patient_data,     \* per thread: Optional record (local of the task / argument)
    prediction_time,  \* per thread: argument of predict
    actual_value,     \* per thread: Optional ground truth extracted by the task
    num_retries,      \* per thread: argument of predict
    retry_delay,      \* per thread: argument of predict
    attempt,          \* per thread: loop variable of predict
    response,         \* per thread: Optional outcome of the latest requests.post of predict
    result,           \* per thread: Optional parsed body (local of predict)
    pred_interval,    \* per thread: Optional value predict returned
    exc,              \* per thread: Optional message of the exception in flight
    is_in_range,      \* per thread: Optional value validate_prediction returned
    requests,         \* per thread: number of requests.post calls of predict
    sleeps,           \* per thread: the time.sleep calls of predict, in order
    _last_response,             \* STARWrapper field
    _last_prediction_interval,  \* STARWrapper field
    _last_prediction_class,     \* STARWrapper field
    eval_pc,            \* do_adversarial_evaluation: position ("idle" when not run)
    synth_predictions,  \* do_adversarial_evaluation: Optional DataFrame
    rwd_predictions,    \* do_adversarial_evaluation: Optional DataFrame
    synth_metrics,      \* do_adversarial_evaluation: Optional metrics dictionary
    rwd_metrics,        \* do_adversarial_evaluation: Optional metrics dictionary
    adversarial_report, \* do_adversarial_evaluation: Optional report dictionary
    eval_exc,           \* do_adversarial_evaluation: Optional exception that ended it
    v_batch,            \* the validator batch that runs: "expert", "statistical", "none"
    v_listing,          \* validator batch: os.listdir of the directory, in its order
    v_index,            \* validator batch: position of the loop in the listing
    v_pc,               \* validator batch: "idle", "loop", "written", "raised"
    v_results,          \* validator batch: the results dictionary, per check
    v_exc,              \* validator batch: Optional exception that ended it
    v_data,             \* validator batch: Optional data of the latest checked file
    v_data_with_datetime, \* validator batch: Optional converted data of that file
    n_pc,               \* a caller of unix_to_datetime: "idle", "start", "once", "twice", "raised"
    n_record,           \* that caller: Optional record it holds
    n_once,             \* that caller: Optional record the first call returned
    n_twice,            \* that caller: Optional record the call on n_once returned
    n_exc               \* that caller: Optional exception that ended it

harnessVars == <<files, max_workers, main_pc, futures, results>>
argVars == <<patient_data, prediction_time, num_retries, retry_delay>>
loopVars == <<attempt, response, result, requests, sleeps>>
wrapperVars == <<_last_response, _last_prediction_interval, _last_prediction_class>>
evalVars == <<eval_pc, synth_predictions, rwd_predictions, synth_metrics, rwd_metrics,
              adversarial_report, eval_exc>>
valVars == <<v_batch, v_listing, v_index, v_pc, v_results, v_exc, v_data,
             v_data_with_datetime>>
normVars == <<n_pc, n_record, n_once, n_twice, n_exc>>
vars == <<files, max_workers, main_pc, futures, results, pc, patient_data,
          prediction_time, actual_value, num_retries, retry_delay, attempt,
          response, result, pred_interval, exc, is_in_range, requests, sleeps,
          _last_response, _last_prediction_interval, _last_prediction_class,
          eval_pc, synth_predictions, rwd_predictions, synth_metrics, rwd_metrics,
          adversarial_report, eval_exc, v_batch, v_listing, v_index, v_pc,
          v_results, v_exc, v_data, v_data_with_datetime, n_pc, n_record, n_once,
          n_twice, n_exc>>

\* Nobody calls unix_to_datetime on its own.
NormIdle ==
    /\ n_pc = "idle"
    /\ n_record = None
    /\ n_once = None
    /\ n_twice = None
    /\ n_exc = None

\* No validator batch is running.
ValIdle ==
    /\ v_batch = "none"
    /\ v_listing = <<>>
    /\ v_index = 0
    /\ v_pc = "idle"
    /\ v_results = <<>>
    /\ v_exc = None
    /\ v_data = None
    /\ v_data_with_datetime = None

\* do_adversarial_evaluation is not running.
EvalIdle ==
    /\ eval_pc = "idle"
    /\ synth_predictions = None
    /\ rwd_predictions = None
    /\ synth_metrics = None
    /\ rwd_metrics = None
    /\ adversarial_report = None
    /\ eval_exc = None

Set(f, t, v) == [f EXCEPT ![t] = v]

\* Raising the exception with message e in thread t.
Raise(t, e) == /\ pc' = Set(pc, t, "raised")
               /\ exc' = Set(exc, t, Some(e))

\* ------------------------------------------------------ STARWrapper.predict
\* A predict whose validations sit inside the retry loop: a failed validation
\* is slept on and tried again like a transport error.
PredictValidate_InsideLoop(t) ==
    /\ pc[t] = "validate"
    /\ LET pd == Get(patient_data[t])
           shape == _validate_patient_data(pd)
           time == IF IsNone(shape) THEN _validate_prediction_time(pd, prediction_time[t])
                   ELSE None
           failed == IF ~IsNone(shape) THEN shape ELSE time
       IN IF ~IsNone(failed)
          THEN IF RetryAgain(attempt[t], num_retries[t])
               THEN /\ sleeps' = Set(sleeps, t, Append(sleeps[t],
                            [attempt |-> attempt[t],
                             wait_time |-> WaitTime(retry_delay[t], attempt[t])]))
                    /\ attempt' = Set(attempt, t, attempt[t] + 1)
                    /\ UNCHANGED <<pc, exc, pred_interval>>
               ELSE /\ Raise(t, Get(failed))
                    /\ UNCHANGED <<pred_interval, attempt, sleeps>>
          ELSE /\ UNCHANGED <<sleeps, attempt>>
               /\ IF InRange(0, num_retries[t])
                  THEN /\ pc' = Set(pc, t, "request")
                       /\ UNCHANGED <<exc, pred_interval>>
                  ELSE /\ pc' = Set(pc, t, "returned")
                       /\ pred_interval' = Set(pred_interval, t, None)
                       /\ UNCHANGED exc
    /\ UNCHANGED <<normVars, valVars, evalVars, harnessVars, argVars, wrapperVars, actual_value, response, result,
                   is_in_range, requests>>

\* Lines 124-132: both validations, then the head of the retry loop. With
\* num_retries = 0 the loop body never runs and predict falls off its end,
\* returning None.
PredictValidate(t) ==
    /\ pc[t] = "validate"
    /\ LET pd == Get(patient_data[t])
           shape == _validate_patient_data(pd)
           time == IF IsNone(shape) THEN _validate_prediction_time(pd, prediction_time[t])
                   ELSE None
       IN IF ~IsNone(shape) THEN Raise(t, Get(shape)) /\ UNCHANGED pred_interval
          ELSE IF ~IsNone(time) THEN Raise(t, Get(time)) /\ UNCHANGED pred_interval
          ELSE IF InRange(0, num_retries[t])
               THEN /\ pc' = Set(pc, t, "request")
                    /\ UNCHANGED <<exc, pred_interval>>
               ELSE /\ pc' = Set(pc, t, "returned")
                    /\ pred_interval' = Set(pred_interval, t, None)
                    /\ UNCHANGED exc
    /\ attempt' = Set(attempt, t, 0)
    /\ UNCHANGED <<normVars, valVars, evalVars, harnessVars, argVars, wrapperVars, actual_value, response, result,
                   is_in_range, requests, sleeps>>

\* Lines 133-145 and the except clauses 156-176: one requests.post and what
\* the try block and its handlers do with the outcome.
PredictRequest(t) ==
    /\ pc[t] = "request"
    /\ \E r \in Responses :
         LET e == RaisedInTry(r) IN
         /\ requests' = Set(requests, t, requests[t] + 1)
         /\ response' = Set(response, t, Some(r))
         /\ IF IsNone(e)
            THEN /\ result' = Set(result, t, Some(r.body))
                 /\ pc' = Set(pc, t, "store")
                 /\ UNCHANGED <<exc, sleeps>>
            ELSE /\ UNCHANGED result
                 /\ IF ExceptClause(Get(e)) = "ValueError"
                    THEN /\ Raise(t, "RuntimeError: Error processing API response")
                         /\ UNCHANGED sleeps
                    ELSE IF RetryAgain(attempt[t], num_retries[t])
                    THEN /\ sleeps' = Set(sleeps, t, Append(sleeps[t],
                                 [attempt |-> attempt[t],
                                  wait_time |-> WaitTime(retry_delay[t], attempt[t])]))
                         /\ pc' = Set(pc, t, "sleep")
                         /\ UNCHANGED exc
                    ELSE /\ Raise(t, IF ExceptClause(Get(e)) = "Timeout"
                                     THEN "RuntimeError: API request timed out"
                                     ELSE "RuntimeError: API request failed")
                         /\ UNCHANGED sleeps
    /\ UNCHANGED <<normVars, valVars, evalVars, harnessVars, argVars, wrapperVars, actual_value, attempt,
                   pred_interval, is_in_range>>

\* time.sleep(wait_time) returns and the loop goes to its next attempt; the
\* failed attempt's outcome is of no further use.
PredictWake(t) ==
    /\ pc[t] = "sleep"
    /\ attempt' = Set(attempt, t, attempt[t] + 1)
    /\ response' = Set(response, t, None)
    /\ pc' = Set(pc, t, "request")
    /\ UNCHANGED <<normVars, valVars, evalVars, harnessVars, argVars, wrapperVars, actual_value, result,
                   pred_interval, exc, is_in_range, requests, sleeps>>

\* Lines 148-152: self._last_response = result and
\* self._last_prediction_interval = {"BG5TH": ..., "BG95TH": ...}.
PredictStore(t) ==
    /\ pc[t] = "store"
    /\ _last_response' = result[t]
    /\ _last_prediction_interval' = Some(PredictionInterval(Get(result[t])))
    /\ pc' = Set(pc, t, "return")
    /\ UNCHANGED <<normVars, valVars, evalVars, harnessVars, argVars, loopVars, actual_value, pred_interval, exc,
                   is_in_range, _last_prediction_class>>

\* Line 154: return self._last_prediction_interval (the field is read again).
PredictReturn(t) ==
    /\ pc[t] = "return"
    /\ pred_interval' = Set(pred_interval, t, _last_prediction_interval)
    /\ pc' = Set(pc, t, "returned")
    /\ UNCHANGED <<normVars, valVars, evalVars, harnessVars, argVars, loopVars, wrapperVars, actual_value, exc,
                   is_in_range>>

\* ------------------------------------------ STARWrapper.validate_prediction
\* What a call of validate_prediction with the given keyword arguments does
\* when the stored interval is last_interval: the exception it raises (or
\* None), the value it returns and the value it stores in
\* _last_prediction_class.
validate_prediction(kwargs, ground_truth, last_interval) ==
    LET bind == BindError(ValidatePredictionParams, kwargs) IN
    IF ~IsNone(bind)
    THEN [raised |-> bind, returned |-> None, stored |-> None]
    ELSE IF IsNone(last_interval)
    THEN [raised |-> Some("RuntimeError: No prediction interval available"),
          returned |-> None, stored |-> None]
    ELSE LET bg_5th == Get(last_interval).BG5TH
             bg_95th == Get(last_interval).BG95TH
             is_inside == IsInside(Get(last_interval), ground_truth)
         IN [raised |-> None,
             returned |-> Some(is_inside),
             stored |-> Some([BG5TH |-> bg_5th, BG95TH |-> bg_95th,
                              ground_truth |-> ground_truth,
                              is_inside |-> is_inside = 1])]

\* ------------------------------------------------- process_single_patient
Running == {t \in Tasks : pc[t] \notin {"idle", "queued", "done"}}

\* A worker of the pool takes the next submitted task.
\* A pool in which no task starts while another task is asleep.
TaskStart_WaitsForSleepers(t) ==
    /\ t \in Tasks
    /\ pc[t] = "queued"
    /\ Cardinality(Running) < max_workers
    /\ \A u \in Tasks : pc[u] # "sleep"
    /\ pc' = Set(pc, t, "load")
    /\ UNCHANGED <<normVars, valVars, evalVars, harnessVars, argVars, loopVars, wrapperVars, actual_value,
                   pred_interval, exc, is_in_range>>

\* A pool that starts every submitted task at once.
TaskStart_Unbounded(t) ==
    /\ t \in Tasks
    /\ pc[t] = "queued"
    /\ pc' = Set(pc, t, "load")
    /\ UNCHANGED <<normVars, valVars, evalVars, harnessVars, argVars, loopVars, wrapperVars, actual_value,
                   pred_interval, exc, is_in_range>>

TaskStart(t) ==
    /\ t \in Tasks
    /\ pc[t] = "queued"
    /\ Cardinality(Running) < max_workers
    /\ pc' = Set(pc, t, "load")
    /\ UNCHANGED <<normVars, valVars, evalVars, harnessVars, argVars, loopVars, wrapperVars, actual_value,
                   pred_interval, exc, is_in_range>>

\* patient_data = load_json_file(filepath)
LoadFile(t) ==
    /\ t \in Tasks
    /\ pc[t] = "load"
    /\ IF files[t].json
       THEN /\ patient_data' = Set(patient_data, t, Some(files[t].data))
            /\ pc' = Set(pc, t, "extract")
            /\ UNCHANGED exc
       ELSE /\ Raise(t, "JSONDecodeError: Invalid JSON in file")
            /\ UNCHANGED patient_data
    /\ UNCHANGED <<normVars, valVars, evalVars, harnessVars, prediction_time, num_retries, retry_delay, loopVars,
                   wrapperVars, actual_value, pred_interval, is_in_range>>

\* pred_time, actual_value = extract_prediction_info(patient_data), then the
\* call model.predict(patient_data=..., prediction_time=pred_time) with the
\* default num_retries and retry_delay.
ExtractInfo(t) ==
    /\ t \in Tasks
    /\ pc[t] = "extract"
    /\ LET e == ExtractError(Get(patient_data[t]))
           info == extract_prediction_info(Get(patient_data[t]))
       IN IF ~IsNone(e)
          THEN /\ Raise(t, Get(e))
               /\ UNCHANGED <<prediction_time, actual_value>>
          ELSE /\ prediction_time' = Set(prediction_time, t, info[1])
               /\ actual_value' = Set(actual_value, t, Some(info[2]))
               /\ pc' = Set(pc, t, "validate")
               /\ UNCHANGED exc
    /\ UNCHANGED <<normVars, valVars, evalVars, harnessVars, patient_data, num_retries, retry_delay, loopVars,
                   wrapperVars, pred_interval, is_in_range>>

\* The locals of a finished task are dropped; the endpoint's latest response
\* to the task stays on record.
DropFrame(t) ==
    /\ patient_data' = Set(patient_data, t, None)
    /\ prediction_time' = Set(prediction_time, t, 0)
    /\ actual_value' = Set(actual_value, t, None)
    /\ attempt' = Set(attempt, t, 0)
    /\ result' = Set(result, t, None)
    /\ pred_interval' = Set(pred_interval, t, None)
    /\ exc' = Set(exc, t, None)
    /\ is_in_range' = Set(is_in_range, t, None)
    /\ requests' = Set(requests, t, 0)
    /\ sleeps' = Set(sleeps, t, <<>>)
    /\ UNCHANGED response

\* Lines 37-52: is_in_range = model.validate_prediction(interval=pred_interval,
\* ground_truth=actual_value), the midpoint and the success dictionary, with
\* which the future is done. Subscripting a None interval raises TypeError.
TaskCheck(t) ==
    /\ t \in Tasks
    /\ pc[t] = "returned"
    /\ LET v == validate_prediction(HarnessCheckKwargs, Get(actual_value[t]),
                                    _last_prediction_interval)
       IN IF ~IsNone(v.raised)
          THEN /\ Raise(t, Get(v.raised))
               /\ UNCHANGED <<futures, argVars, loopVars, actual_value, pred_interval,
                              is_in_range, _last_prediction_class>>
          ELSE IF IsNone(pred_interval[t])
          THEN /\ Raise(t, "TypeError: 'NoneType' object is not subscriptable")
               /\ _last_prediction_class' = v.stored
               /\ is_in_range' = Set(is_in_range, t, v.returned)
               /\ UNCHANGED <<futures, argVars, loopVars, actual_value, pred_interval>>
          ELSE /\ _last_prediction_class' = v.stored
               /\ futures' = Set(futures, t,
                      Some([outcome |-> Some(SuccessOutcome(t, Get(actual_value[t]),
                                          Get(pred_interval[t]),
                                          calculate_interval_midpoint(Get(pred_interval[t])),
                                          Get(v.returned))),
                            exception |-> None]))
               /\ pc' = Set(pc, t, "done")
               /\ DropFrame(t)
               /\ UNCHANGED <<num_retries, retry_delay>>
    /\ UNCHANGED <<normVars, valVars, evalVars, files, max_workers, main_pc, results, _last_response,
                   _last_prediction_interval>>

\* Lines 53-63: except Exception as e builds the failure dictionary; an
\* exception the clause does not catch ends the task and is kept by the future.
TaskExcept(t) ==
    /\ t \in Tasks
    /\ pc[t] = "raised"
    /\ futures' = Set(futures, t,
           IF CaughtByHarness(Get(exc[t]))
           THEN Some([outcome |-> Some(FailureOutcome(t, Get(exc[t]))), exception |-> None])
           ELSE Some([outcome |-> None, exception |-> exc[t]]))
    /\ pc' = Set(pc, t, "done")
    /\ DropFrame(t)
    /\ UNCHANGED <<normVars, valVars, evalVars, files, max_workers, main_pc, results, num_retries, retry_delay,
                   wrapperVars>>

\* ----------------------------------------------- parallel_predict_patients
Collected == {results[i].file_name : i \in 1..Len(results)}

\* A collection loop that aborts the batch at the first failed outcome.
Collect_FailFast(t) ==
    /\ main_pc = "collect"
    /\ t \in Tasks
    /\ ~IsNone(futures[t])
    /\ t \notin Collected
    /\ IF /\ IsNone(Get(futures[t]).exception)
          /\ Get(Get(futures[t]).outcome).success
       THEN /\ results' = Append(results, Get(Get(futures[t]).outcome))
            /\ UNCHANGED main_pc
       ELSE /\ main_pc' = "raised"
            /\ UNCHANGED results
    /\ UNCHANGED <<normVars, valVars, evalVars, files, max_workers, futures, pc, argVars, loopVars, wrapperVars,
                   actual_value, pred_interval, exc, is_in_range>>

\* for future in as_completed(futures): results.append(future.result());
\* future.result() re-raises the exception of a task that raised.
Collect(t) ==
    /\ main_pc = "collect"
    /\ t \in Tasks
    /\ ~IsNone(futures[t])
    /\ t \notin Collected
    /\ IF IsNone(Get(futures[t]).exception)
       THEN /\ results' = Append(results, Get(Get(futures[t]).outcome))
            /\ UNCHANGED main_pc
       ELSE /\ main_pc' = "raised"
            /\ UNCHANGED results
    /\ UNCHANGED <<normVars, valVars, evalVars, files, max_workers, futures, pc, argVars, loopVars, wrapperVars,
                   actual_value, pred_interval, exc, is_in_range>>

\* The with block ends once every future has been collected and every task
\* has finished; the DataFrame of the results is returned.
Finish ==
    /\ main_pc = "collect"
    /\ Len(results) = Len(files)
    /\ \A t \in 1..Len(files) : pc[t] = "done"
    /\ main_pc' = "returned"
    /\ UNCHANGED <<normVars, valVars, evalVars, files, max_workers, futures, results, pc, argVars, loopVars,
                   wrapperVars, actual_value, pred_interval, exc, is_in_range>>

\* ------------------------------------------------------- the input files
AllChannels == {"diabeticStatus", "startTime", "bloodGlucose", "insulinInfusion",
                "insulinBolus", "nutritionInfusion", "nutritionBolus"}
GlucoseInWindow == <<<<UpdateTime, 650>>, <<UpdateTime + 60000, 700>>>>

BadJson == [json |-> FALSE, data |-> Patient({}, 0, <<>>)]
JsonFile(rec) == [json |-> TRUE, data |-> rec]
RecValid ==
    Patient(TopKeys, UpdateTime,
            <<Episode(AllChannels, GlucoseInWindow),
              Episode(AllChannels, <<<<UpdateTime + 120000, 900>>>>)>>)
RecNoGlucose == Patient(TopKeys, UpdateTime, <<Episode(AllChannels, <<>>)>>)
HarnessFiles == {BadJson, JsonFile(RecValid), JsonFile(RecNoGlucose)}

\* ------------------------------------------------------------ the harness
\* parallel_predict_patients(data_path, max_workers): the files of the
\* directory are listed, one STARWrapper is built and one task per file is
\* submitted to the pool.
Init ==
    /\ \E n \in 0..NumFiles : files \in [1..n -> HarnessFiles]
    /\ max_workers \in {1, DefaultMaxWorkers}
    /\ main_pc = "collect"
    /\ futures = [t \in Threads |-> None]
    /\ results = <<>>
    /\ pc = [t \in Threads |-> IF t \in 1..Len(files) THEN "queued" ELSE "idle"]
    /\ patient_data = [t \in Threads |-> None]
    /\ prediction_time = [t \in Threads |-> 0]
    /\ actual_value = [t \in Threads |-> None]
    /\ num_retries = [t \in Threads |-> DefaultNumRetries]
    /\ retry_delay = [t \in Threads |-> DefaultRetryDelay]
    /\ attempt = [t \in Threads |-> 0]
    /\ response = [t \in Threads |-> None]
    /\ result = [t \in Threads |-> None]
    /\ pred_interval = [t \in Threads |-> None]
    /\ exc = [t \in Threads |-> None]
    /\ is_in_range = [t \in Threads |-> None]
    /\ requests = [t \in Threads |-> 0]
    /\ sleeps = [t \in Threads |-> <<>>]
    /\ _last_response = None
    /\ _last_prediction_interval = None
    /\ _last_prediction_class = None
    /\ EvalIdle
    /\ ValIdle
    /\ NormIdle

Next ==
    \/ \E t \in Tasks : TaskStart(t)
    \/ \E t \in Tasks : LoadFile(t)
    \/ \E t \in Tasks : ExtractInfo(t)
    \/ \E t \in Tasks : PredictValidate(t)
    \/ \E t \in Tasks : PredictRequest(t)
    \/ \E t \in Tasks : PredictWake(t)
    \/ \E t \in Tasks : PredictStore(t)
    \/ \E t \in Tasks : PredictReturn(t)
    \/ \E t \in Tasks : TaskCheck(t)
    \/ \E t \in Tasks : TaskExcept(t)
    \/ \E t \in Tasks : Collect(t)
    \/ Finish

Spec == Init /\ [][Next]_vars

\* The steps of the task of file t, from its start in a worker thread to its
\* finished future.
TaskStep(t) ==
    \/ TaskStart(t)
    \/ LoadFile(t)
    \/ ExtractInfo(t)
    \/ PredictValidate(t)
    \/ PredictRequest(t)
    \/ PredictWake(t)
    \/ PredictStore(t)
    \/ PredictReturn(t)
    \/ TaskCheck(t)
    \/ TaskExcept(t)

\* The harness under fair scheduling: while some thread can take a step, a
\* step is eventually taken (requests.post is called with timeout=5, so a
\* request returns or times out; time.sleep returns; the main thread wakes
\* up in as_completed when a future is done).
Fairness == WF_vars(Next)
FairSpec == Init /\ [][Next]_vars /\ Fairness

\* The harness when the task of the first file may stay for ever where it
\* is (asleep in time.sleep, waiting in requests.post, or not scheduled):
\* only the other tasks and the main thread are scheduled fairly.
Stuck == CHOOSE t \in Tasks : \A u \in Tasks : t <= u
OthersFair ==
    /\ WF_vars(\E t \in Tasks \ {Stuck} : TaskStep(t))
    /\ WF_vars((\E t \in Tasks : Collect(t)) \/ Finish)
StuckSpec == Init /\ [][Next]_vars /\ OthersFair

\* ------------------------------------------------- a direct caller of predict
\* The records, prediction times and ground truths a direct caller passes.
EpFull == Episode(PredictChannels, GlucoseInWindow)
EpEmptyChannels == Episode(PredictChannels, <<>>)
EpMissing(c) == Episode(PredictChannels \ {c}, <<>>)
ClientEpisodes ==
    {<<>>, <<EpFull>>, <<EpEmptyChannels>>, <<EpMissing("insulinInfusion"), EpFull>>,
     <<EpFull, EpMissing("insulinInfusion")>>}
      \cup {<<EpMissing(c)>> : c \in PredictChannels}
ClientRecords ==
    {Patient(TopKeys, UpdateTime, eps) : eps \in ClientEpisodes}
      \cup {Patient(TopKeys \ {k}, UpdateTime, <<EpFull>>) : k \in TopKeys}
ClientTimes ==
    {UpdateTime - 1, UpdateTime, UpdateTime + 1, UpdateTime + PredictionWindowMs - 1,
     UpdateTime + PredictionWindowMs, UpdateTime + PredictionWindowMs + 1}
GroundTruths == {499, 500, 700, 1000, 1001}

\* client.predict(patient_data, prediction_time, num_retries, retry_delay)
\* is called.
Call ==
    /\ pc[Client] = "idle"
    /\ \E pd \in ClientRecords, pt \in ClientTimes, nr \in 0..MaxRetries, rd \in 1..MaxDelay :
         /\ patient_data' = Set(patient_data, Client, Some(pd))
         /\ prediction_time' = Set(prediction_time, Client, pt)
         /\ num_retries' = Set(num_retries, Client, nr)
         /\ retry_delay' = Set(retry_delay, Client, rd)
    /\ pc' = Set(pc, Client, "validate")
    /\ attempt' = Set(attempt, Client, 0)
    /\ response' = Set(response, Client, None)
    /\ result' = Set(result, Client, None)
    /\ pred_interval' = Set(pred_interval, Client, None)
    /\ exc' = Set(exc, Client, None)
    /\ is_in_range' = Set(is_in_range, Client, None)
    /\ requests' = Set(requests, Client, 0)
    /\ sleeps' = Set(sleeps, Client, <<>>)
    /\ UNCHANGED <<normVars, valVars, evalVars, harnessVars, wrapperVars, actual_value>>

\* client.validate_prediction(ground_truth) is called, before or after the
\* predict call.
ClientCheck ==
    /\ pc[Client] \in {"idle", "returned"}
    /\ \E gt \in GroundTruths :
         LET v == validate_prediction({"ground_truth"}, gt, _last_prediction_interval)
         IN /\ actual_value' = Set(actual_value, Client, Some(gt))
            /\ IF ~IsNone(v.raised)
               THEN /\ Raise(Client, Get(v.raised))
                    /\ UNCHANGED <<is_in_range, _last_prediction_class>>
               ELSE /\ _last_prediction_class' = v.stored
                    /\ is_in_range' = Set(is_in_range, Client, v.returned)
                    /\ pc' = Set(pc, Client, "checked")
                    /\ UNCHANGED exc
    /\ UNCHANGED <<normVars, valVars, evalVars, harnessVars, argVars, loopVars, pred_interval, _last_response,
                   _last_prediction_interval>>

\* A STARWrapper instance and a direct caller; no harness runs. The instance
\* is new, or an earlier predict call on it has stored an interval.
InitPredict ==
    /\ files = <<>>
    /\ max_workers = DefaultMaxWorkers
    /\ main_pc = "idle"
    /\ futures = [t \in Threads |-> None]
    /\ results = <<>>
    /\ pc = [t \in Threads |-> "idle"]
    /\ patient_data = [t \in Threads |-> None]
    /\ prediction_time = [t \in Threads |-> 0]
    /\ actual_value = [t \in Threads |-> None]
    /\ num_retries = [t \in Threads |-> DefaultNumRetries]
    /\ retry_delay = [t \in Threads |-> DefaultRetryDelay]
    /\ attempt = [t \in Threads |-> 0]
    /\ response = [t \in Threads |-> None]
    /\ result = [t \in Threads |-> None]
    /\ pred_interval = [t \in Threads |-> None]
    /\ exc = [t \in Threads |-> None]
    /\ is_in_range = [t \in Threads |-> None]
    /\ requests = [t \in Threads |-> 0]
    /\ sleeps = [t \in Threads |-> <<>>]
    /\ \/ /\ _last_response = None
          /\ _last_prediction_interval = None
       \/ \E iv \in Intervals : /\ _last_response = Some(iv)
                                /\ _last_prediction_interval = Some(iv)
    /\ _last_prediction_class = None
    /\ EvalIdle
    /\ ValIdle
    /\ NormIdle

NextPredict ==
    \/ Call
    \/ PredictValidate(Client)
    \/ PredictRequest(Client)
    \/ PredictWake(Client)
    \/ PredictStore(Client)
    \/ PredictReturn(Client)
    \/ ClientCheck

SpecPredict == InitPredict /\ [][NextPredict]_vars

\* ============================================== the adversarial evaluation
\* Exact arithmetic for the metrics. A non-negative float is the fraction
\* <<numerator, denominator>> in lowest terms, in the unit of the quantity
\* (a rate, or blood glucose units); the ground truths and midpoints of the
\* rows stay in hundredths.
RECURSIVE GCD(_, _)
GCD(a, b) == IF b = 0 THEN a ELSE GCD(b, a % b)
Rat(n, d) == LET g == GCD(n, d) IN <<n \div g, d \div g>>
RatAdd(x, y) == Rat(x[1] * y[2] + y[1] * x[2], x[2] * y[2])
Abs(i) == IF i < 0 THEN 0 - i ELSE i
\* abs(x - y)
AbsDiff(x, y) == Rat(Abs(x[1] * y[2] - y[1] * x[2]), x[2] * y[2])

\* The integer nearest to n / d, a tie going to the even one: Python's
\* round() and its format specification both round half to even.
RoundHalfEven(n, d) ==
    LET q == n \div d
        r == n % d
    IN IF 2 * r < d THEN q
       ELSE IF 2 * r > d THEN q + 1
       ELSE IF q % 2 = 0 THEN q ELSE q + 1

\* The largest r in lo..hi with (2r - 1)^2 * d <= 4n or r = 0: the integer
\* nearest to sqrt(n / d).
RECURSIVE NearestRoot(_, _, _, _)
NearestRoot(lo, hi, n, d) ==
    IF lo = hi THEN lo
    ELSE LET mid == (lo + hi + 1) \div 2
         IN IF (2 * mid - 1) * (2 * mid - 1) * d <= 4 * n
            THEN NearestRoot(mid, hi, n, d)
            ELSE NearestRoot(lo, mid - 1, n, d)

\* The columns of the successful rows, as arrays.
Column(df, c) == [i \in 1..Len(df) |-> Get(df[i][c])]
RECURSIVE Sum(_)
Sum(a) == IF a = <<>> THEN 0 ELSE a[1] + Sum(Tail(a))
RECURSIVE RatSum(_)
RatSum(a) == IF a = <<>> THEN <<0, 1>> ELSE RatAdd(a[1], RatSum(Tail(a)))
RECURSIVE Largest(_)
Largest(a) == IF a = <<>> THEN 0
              ELSE LET m == Largest(Tail(a)) IN IF a[1] > m THEN a[1] ELSE m
Errors(y_true, y_pred) == [i \in 1..Len(y_true) |-> Abs(y_true[i] - y_pred[i])]

\* Series.mean() of the is_in_range column
SeriesMean(a) == Rat(Sum(a), Len(a))

\* The largest absolute error in place of the mean one.
mean_absolute_error_Largest(y_true, y_pred) ==
    Rat(Largest(Errors(y_true, y_pred)), 100)

\* sklearn.metrics.mean_absolute_error, in blood glucose units
mean_absolute_error(y_true, y_pred) ==
    Rat(Sum(Errors(y_true, y_pred)), 100 * Len(y_true))

\* sklearn.metrics.root_mean_squared_error, in blood glucose units: the
\* square root is kept to the nearest hundredth, the resolution of the
\* model's floats.
root_mean_squared_error(y_true, y_pred) ==
    LET e == Errors(y_true, y_pred)
        squares == [i \in 1..Len(e) |-> e[i] * e[i]]
    IN Rat(NearestRoot(0, Largest(e), Sum(squares), Len(e)), 100)

\* sklearn.metrics.mean_absolute_percentage_error: the mean of
\* |y_true - y_pred| / |y_true| (the ground truths of the model are not 0).
mean_absolute_percentage_error(y_true, y_pred) ==
    LET e == Errors(y_true, y_pred)
        terms == [i \in 1..Len(e) |-> Rat(e[i], Abs(y_true[i]))]
        total == RatSum(terms)
    IN Rat(total[1], total[2] * Len(e))

\* df[df["success"] == True]
df_success(df) == SelectSeq(df, LAMBDA row : row.success)

\* A variant whose means divide by the number of all rows of the frame.
calculate_metrics_OverAllRows(df) ==
    IF df = <<>>
    THEN [raised |-> Some("KeyError: 'success'"), value |-> None]
    ELSE IF df_success(df) = <<>>
    THEN [raised |-> Some("ValueError: Found array with 0 sample(s)"), value |-> None]
    ELSE LET ok == df_success(df)
             y_true == Column(ok, "ground_truth")
             y_pred == Column(ok, "interval_center")
             mae == mean_absolute_error(y_true, y_pred)
         IN [raised |-> None,
             value |-> Some([coverage_rate |-> Rat(Sum(Column(ok, "is_in_range")), Len(df)),
                             mae |-> Rat(mae[1] * Len(ok), mae[2] * Len(df)),
                             rmse |-> root_mean_squared_error(y_true, y_pred),
                             mape |-> mean_absolute_percentage_error(y_true, y_pred)])]

\* calculate_metrics(df): the exception it raises (or None) and the
\* dictionary it returns. pd.DataFrame([]) has no column, so df["success"]
\* raises KeyError for a frame without rows; the sklearn metrics validate
\* their arrays with check_array, which raises ValueError for an array
\* without samples.
calculate_metrics(df) ==
    IF df = <<>>
    THEN [raised |-> Some("KeyError: 'success'"), value |-> None]
    ELSE IF df_success(df) = <<>>
    THEN [raised |-> Some("ValueError: Found array with 0 sample(s)"), value |-> None]
    ELSE LET ok == df_success(df)
             coverage_rate == SeriesMean(Column(ok, "is_in_range"))
             y_true == Column(ok, "ground_truth")
             y_pred == Column(ok, "interval_center")
         IN [raised |-> None,
             value |-> Some([coverage_rate |-> coverage_rate,
                             mae |-> mean_absolute_error(y_true, y_pred),
                             rmse |-> root_mean_squared_error(y_true, y_pred),
                             mape |-> mean_absolute_percentage_error(y_true, y_pred)])]

\* The blocks of the report and the metric each one shows.
ReportBlocks == {"Coverage Rate", "MAE", "RMSE", "MAPE"}
MetricOf(block) ==
    CASE block = "Coverage Rate" -> "coverage_rate"
      [] block = "MAE" -> "mae"
      [] block = "RMSE" -> "rmse"
      [] block = "MAPE" -> "mape"
PercentBlocks == {"Coverage Rate", "MAPE"}

\* The number an entry of the report shows: round(x * 100, 2) percentage
\* points for the coverage rate and the MAPE, round(x, 4) or format :.4f for
\* the MAE and the RMSE.
Rendered(block, x) ==
    IF block \in PercentBlocks
    THEN Rat(RoundHalfEven(x[1] * 10000, x[2]), 100)
    ELSE Rat(RoundHalfEven(x[1] * 10000, x[2]), 10000)

\* A report that shows each batch under the other one's name.
create_adversarial_evaluation_report_Crossed(rwd_metrics_, synth_metrics_) ==
    [block \in ReportBlocks |->
       [rwd |-> Rendered(block, synth_metrics_[MetricOf(block)]),
        synthetic |-> Rendered(block, rwd_metrics_[MetricOf(block)]),
        difference |-> Rendered(block, AbsDiff(rwd_metrics_[MetricOf(block)],
                                               synth_metrics_[MetricOf(block)]))]]

\* create_adversarial_evaluation_report: the four metric blocks (the
\* "information" entry is a fixed text).
create_adversarial_evaluation_report(rwd_metrics_, synth_metrics_) ==
    [block \in ReportBlocks |->
       [rwd |-> Rendered(block, rwd_metrics_[MetricOf(block)]),
        synthetic |-> Rendered(block, synth_metrics_[MetricOf(block)]),
        difference |-> Rendered(block, AbsDiff(rwd_metrics_[MetricOf(block)],
                                               synth_metrics_[MetricOf(block)]))]]

\* The frames parallel_predict_patients can return for an existing
\* directory: one outcome of process_single_patient per file, up to MaxRows
\* files. The rows "ok100" and "ok200" have the ground truths 100 and 200
\* and the midpoints 100 and 210; "ok7" has ground truth 7.00 and midpoint
\* 7.50.
MaxRows == 2
RowKinds == {"failed_check", "failed_load", "ok100", "ok200", "ok7"}
Row(filepath, kind) ==
    CASE kind = "failed_check" ->
           FailureOutcome(filepath, "TypeError: got an unexpected keyword argument")
      [] kind = "failed_load" ->
           FailureOutcome(filepath, "JSONDecodeError: Invalid JSON in file")
      [] kind = "ok100" ->
           SuccessOutcome(filepath, 10000, Interval(9000, 11000),
                          calculate_interval_midpoint(Interval(9000, 11000)),
                          IsInside(Interval(9000, 11000), 10000))
      [] kind = "ok200" ->
           SuccessOutcome(filepath, 20000, Interval(20500, 21500),
                          calculate_interval_midpoint(Interval(20500, 21500)),
                          IsInside(Interval(20500, 21500), 20000))
      [] kind = "ok7" ->
           SuccessOutcome(filepath, 700, Interval(500, 1000),
                          calculate_interval_midpoint(Interval(500, 1000)),
                          IsInside(Interval(500, 1000), 700))
DataFrames ==
    UNION {{[i \in 1..n |-> Row(i, kinds[i])] : kinds \in [1..n -> RowKinds]} :
           n \in 0..MaxRows}

\* synth_predictions = parallel_predict_patients(data_path=synth_dir)
EvalPredictSynth ==
    /\ eval_pc = "predict_synth"
    /\ \E df \in DataFrames : synth_predictions' = Some(df)
    /\ eval_pc' = "predict_rwd"
    /\ UNCHANGED <<rwd_predictions, synth_metrics, rwd_metrics, adversarial_report,
                   eval_exc>>
    /\ UNCHANGED <<normVars, valVars, harnessVars, argVars, loopVars, wrapperVars, pc,
                   actual_value, pred_interval, exc, is_in_range>>

\* rwd_predictions = parallel_predict_patients(data_path=rwd_dir)
EvalPredictRwd ==
    /\ eval_pc = "predict_rwd"
    /\ \E df \in DataFrames : rwd_predictions' = Some(df)
    /\ eval_pc' = "metrics_synth"
    /\ UNCHANGED <<synth_predictions, synth_metrics, rwd_metrics, adversarial_report,
                   eval_exc>>
    /\ UNCHANGED <<normVars, valVars, harnessVars, argVars, loopVars, wrapperVars, pc,
                   actual_value, pred_interval, exc, is_in_range>>

\* synth_metrics = calculate_metrics(synth_predictions); an exception ends
\* do_adversarial_evaluation, which has no handler.
EvalMetricsSynth ==
    /\ eval_pc = "metrics_synth"
    /\ LET m == calculate_metrics(Get(synth_predictions))
       IN IF ~IsNone(m.raised)
          THEN /\ eval_pc' = "raised"
               /\ eval_exc' = m.raised
               /\ UNCHANGED synth_metrics
          ELSE /\ eval_pc' = "metrics_rwd"
               /\ synth_metrics' = m.value
               /\ UNCHANGED eval_exc
    /\ UNCHANGED <<synth_predictions, rwd_predictions, rwd_metrics, adversarial_report>>
    /\ UNCHANGED <<normVars, valVars, harnessVars, argVars, loopVars, wrapperVars, pc,
                   actual_value, pred_interval, exc, is_in_range>>

\* rwd_metrics = calculate_metrics(rwd_predictions)
EvalMetricsRwd ==
    /\ eval_pc = "metrics_rwd"
    /\ LET m == calculate_metrics(Get(rwd_predictions))
       IN IF ~IsNone(m.raised)
          THEN /\ eval_pc' = "raised"
               /\ eval_exc' = m.raised
               /\ UNCHANGED rwd_metrics
          ELSE /\ eval_pc' = "report"
               /\ rwd_metrics' = m.value
               /\ UNCHANGED eval_exc
    /\ UNCHANGED <<synth_predictions, rwd_predictions, synth_metrics, adversarial_report>>
    /\ UNCHANGED <<normVars, valVars, harnessVars, argVars, loopVars, wrapperVars, pc,
                   actual_value, pred_interval, exc, is_in_range>>

\* The report is built from the two dictionaries and saved.
EvalReport ==
    /\ eval_pc = "report"
    /\ adversarial_report' =
         Some(create_adversarial_evaluation_report(Get(rwd_metrics), Get(synth_metrics)))
    /\ eval_pc' = "saved"
    /\ UNCHANGED <<synth_predictions, rwd_predictions, synth_metrics, rwd_metrics,
                   eval_exc>>
    /\ UNCHANGED <<normVars, valVars, harnessVars, argVars, loopVars, wrapperVars, pc,
                   actual_value, pred_interval, exc, is_in_range>>

\* do_adversarial_evaluation(synth_dir, rwd_dir, output_path) is called with
\* two existing directories.
InitEval ==
    /\ files = <<>>
    /\ max_workers = DefaultMaxWorkers
    /\ main_pc = "idle"
    /\ futures = [t \in Threads |-> None]
    /\ results = <<>>
    /\ pc = [t \in Threads |-> "idle"]
    /\ patient_data = [t \in Threads |-> None]
    /\ prediction_time = [t \in Threads |-> 0]
    /\ actual_value = [t \in Threads |-> None]
    /\ num_retries = [t \in Threads |-> DefaultNumRetries]
    /\ retry_delay = [t \in Threads |-> DefaultRetryDelay]
    /\ attempt = [t \in Threads |-> 0]
    /\ response = [t \in Threads |-> None]
    /\ result = [t \in Threads |-> None]
    /\ pred_interval = [t \in Threads |-> None]
    /\ exc = [t \in Threads |-> None]
    /\ is_in_range = [t \in Threads |-> None]
    /\ requests = [t \in Threads |-> 0]
    /\ sleeps = [t \in Threads |-> <<>>]
    /\ _last_response = None
    /\ _last_prediction_interval = None
    /\ _last_prediction_class = None
    /\ eval_pc = "predict_synth"
    /\ synth_predictions = None
    /\ rwd_predictions = None
    /\ synth_metrics = None
    /\ rwd_metrics = None
    /\ adversarial_report = None
    /\ eval_exc = None
    /\ ValIdle
    /\ NormIdle

NextEval ==
    \/ EvalPredictSynth
    \/ EvalPredictRwd
    \/ EvalMetricsSynth
    \/ EvalMetricsRwd
    \/ EvalReport

SpecEval == InitEval /\ [][NextEval]_vars

\* ========================================================= the validators
\* Records as the validators read them. A timestamp of the file is Some(ms)
\* when it is a JSON number and NotNumber when it is any other JSON value; a
\* glucose event is <<timestamp, value>>, an infusion or bolus event is
\* <<timestamp, dictionary>>, and an event may be shorter. In a dictionary
\* "route" is a number and "rate" is an Optional number (None is null).
NotNumber == <<>>
EventChannels == {"bloodGlucose", "insulinInfusion", "insulinBolus",
                  "nutritionInfusion", "nutritionBolus"}
HourMs == 60 * 60 * 1000

\* datetime.fromtimestamp(ms / 1000): a datetime, told apart from the number.
Datetime(ms) == <<"datetime", ms>>
fromtimestamp(timestamp) == Datetime(Get(timestamp))
\* datetime - timedelta(hours=h)
MinusHours(dt, h) == Datetime(dt[2] - h * HourMs)
\* dt1 <= dt2
DtLeq(dt1, dt2) == dt1[2] <= dt2[2]
\* datetime.isoformat(): the text of the datetime.
isoformat(dt) == <<"iso", dt[2]>>

\* The concatenation of a sequence of sequences.
RECURSIVE Concat(_)
Concat(ss) == IF ss = <<>> THEN <<>> ELSE ss[1] \o Concat(Tail(ss))
Episodes(data) == IF HasKey(data, "episodes") THEN data["episodes"] ELSE <<>>
Channel(episode, c) == IF HasKey(episode, c) THEN episode[c] ELSE <<>>
\* The entries of a channel the checks look at: those with len(entry) >= 2.
Entries(episode, c) == SelectSeq(Channel(episode, c), LAMBDA e : Len(e) >= 2)

\* -------------------------------------------------------- unix_to_datetime
\* The timestamps unix_to_datetime divides by 1000, in the order it meets
\* them.
StampsOfEpisode(episode) ==
    LET channels == <<"bloodGlucose", "insulinInfusion", "insulinBolus",
                      "nutritionInfusion", "nutritionBolus">>
        stamps(c) == LET converted == SelectSeq(Channel(episode, c),
                                                LAMBDA e : Len(e) >= 1)
                     IN [i \in 1..Len(converted) |-> converted[i][1]]
    IN (IF HasKey(episode, "startTime") THEN <<episode["startTime"]>> ELSE <<>>)
       \o Concat([c \in 1..Len(channels) |-> stamps(channels[c])])
Stamps(data) ==
    Concat([e \in 1..Len(Episodes(data)) |-> StampsOfEpisode(Episodes(data)[e])])

ConvertEvent(tuple_data) ==
    IF Len(tuple_data) >= 1
    THEN <<fromtimestamp(tuple_data[1])>> \o Tail(tuple_data)
    ELSE tuple_data
ConvertEpisode(episode) ==
    [k \in DOMAIN episode |->
       IF k = "startTime" THEN fromtimestamp(episode[k])
       ELSE IF k \in EventChannels THEN [i \in 1..Len(episode[k]) |-> ConvertEvent(episode[k][i])]
       ELSE episode[k]]
Converted(data) ==
    IF ~HasKey(data, "episodes") THEN data
    ELSE [k \in DOMAIN data |->
            IF k = "episodes"
            THEN [e \in 1..Len(data[k]) |-> ConvertEpisode(data[k][e])]
            ELSE data[k]]

\* A timestamp that can be divided by 1000: a number, neither text nor a
\* datetime.
IsNumber(timestamp) == Len(timestamp) = 1

\* A conversion that writes the datetimes into its argument.
unix_to_datetime_InPlace(data_dict) ==
    IF \E i \in 1..Len(Stamps(data_dict)) : ~IsNumber(Stamps(data_dict)[i])
    THEN [raised |-> Some("TypeError: unsupported operand type(s) for /"),
          arg |-> data_dict, result |-> None]
    ELSE [raised |-> None, arg |-> Converted(data_dict),
          result |-> Some(Converted(data_dict))]

\* unix_to_datetime(data_dict): the exception it raises (or None), its
\* argument after the call and the dictionary it returns. The conversion
\* works on copy.deepcopy(data_dict); dividing a timestamp that is not a
\* number by 1000 raises TypeError.
unix_to_datetime(data_dict) ==
    IF \E i \in 1..Len(Stamps(data_dict)) : ~IsNumber(Stamps(data_dict)[i])
    THEN [raised |-> Some("TypeError: unsupported operand type(s) for /"),
          arg |-> data_dict, result |-> None]
    ELSE [raised |-> None, arg |-> data_dict, result |-> Some(Converted(data_dict))]

\* ------------------------------------------------------ expert_knowledge.py
\* The plausible range [1.2, 110] mmol/L, in hundredths.
GlucoseLow == 120
GlucoseHigh == 11000

\* A range check with the lower bound excluded.
OutOfRange_LowExcluded(glucose_value) ==
    glucose_value <= GlucoseLow \/ glucose_value > GlucoseHigh

\* glucose_value < 1.2 or glucose_value > 110
OutOfRange(glucose_value) ==
    glucose_value < GlucoseLow \/ glucose_value > GlucoseHigh

\* A loop body that appends the evidence and leaves valid as it was.
RECURSIVE Flag_AppendOnly(_, _, _)
Flag_AppendOnly(res, key, items) ==
    IF items = <<>> THEN res
    ELSE Flag_AppendOnly([res EXCEPT ![key] = Append(@, items[1])], key, Tail(items))

\* The two statements every check runs for a violation it finds,
\* result[filename]["valid"] = False and result[filename][key].append(item),
\* run for the violations found, in the order the loops find them.
RECURSIVE Flag(_, _, _)
Flag(res, key, items) ==
    IF items = <<>> THEN res
    ELSE Flag([res EXCEPT !.valid = FALSE, ![key] = Append(@, items[1])],
              key, Tail(items))

check_blood_glucose_values(data_with_datetime) ==
    LET episodes == Episodes(data_with_datetime)
        bad(episode) ==
          LET out == SelectSeq(Entries(episode, "bloodGlucose"),
                               LAMBDA bg_entry : OutOfRange(bg_entry[2]))
          IN [i \in 1..Len(out) |-> [timestamp |-> isoformat(out[i][1]),
                                     glucose_value |-> out[i][2]]]
        invalid_values == Concat([e \in 1..Len(episodes) |-> bad(episodes[e])])
    IN Flag([valid |-> TRUE, invalid_values |-> <<>>], "invalid_values", invalid_values)

\* last_bg_timestamp: None, or the largest timestamp of the entries.
RECURSIVE LastTimestamp(_)
LastTimestamp(entries) ==
    IF entries = <<>> THEN None
    ELSE LET rest == LastTimestamp(Tail(entries))
         IN IF IsNone(rest) \/ ~DtLeq(entries[1][1], Get(rest))
            THEN Some(entries[1][1]) ELSE rest

SubcutaneousWindowHours == 12
\* infusion_data.get("route")
RouteOf(d) == IF HasKey(d, "route") THEN Some(d["route"]) ELSE None

\* A window check with the start of the window excluded.
InWindow_StartExcluded(window_start, timestamp, window_end) ==
    ~DtLeq(timestamp, window_start) /\ DtLeq(timestamp, window_end)

\* window_start <= timestamp <= window_end
InWindow(window_start, timestamp, window_end) ==
    DtLeq(window_start, timestamp) /\ DtLeq(timestamp, window_end)

\* A check that takes the window of every episode from the latest glucose
\* event of the whole record.
check_subcataneous_insulin_RecordWindow(data_with_datetime) ==
    LET flagged(episode, c, type) ==
          LET last_bg_timestamp ==
                LastTimestamp(Concat([e \in 1..Len(Episodes(data_with_datetime)) |->
                                        Entries(Episodes(data_with_datetime)[e],
                                                "bloodGlucose")]))
              window_end == Get(last_bg_timestamp)
              window_start == MinusHours(window_end, SubcutaneousWindowHours)
          IN IF IsNone(last_bg_timestamp) THEN <<>>
             ELSE LET hit == SelectSeq(Entries(episode, c),
                                 LAMBDA e : /\ InWindow(window_start, e[1], window_end)
                                            /\ RouteOf(e[2]) = Some(1))
                  IN [i \in 1..Len(hit) |->
                        [timestamp |-> isoformat(hit[i][1]), type |-> type,
                         route |-> Get(RouteOf(hit[i][2]))]]
        of(episode) == flagged(episode, "insulinInfusion", "infusion")
                         \o flagged(episode, "insulinBolus", "bolus")
        episodes == Episodes(data_with_datetime)
        invalid_administrations == Concat([e \in 1..Len(episodes) |-> of(episodes[e])])
    IN [valid |-> invalid_administrations = <<>>,
        invalid_administrations |-> invalid_administrations]

check_subcataneous_insulin(data_with_datetime) ==
    LET flagged(episode, c, type) ==
          LET last_bg_timestamp == LastTimestamp(Entries(episode, "bloodGlucose"))
              window_end == Get(last_bg_timestamp)
              window_start == MinusHours(window_end, SubcutaneousWindowHours)
          IN IF IsNone(last_bg_timestamp) THEN <<>>
             ELSE LET hit == SelectSeq(Entries(episode, c),
                                 LAMBDA e : /\ InWindow(window_start, e[1], window_end)
                                            /\ RouteOf(e[2]) = Some(1))
                  IN [i \in 1..Len(hit) |->
                        [timestamp |-> isoformat(hit[i][1]), type |-> type,
                         route |-> Get(RouteOf(hit[i][2]))]]
        of(episode) == flagged(episode, "insulinInfusion", "infusion")
                         \o flagged(episode, "insulinBolus", "bolus")
        episodes == Episodes(data_with_datetime)
        invalid_administrations == Concat([e \in 1..Len(episodes) |-> of(episodes[e])])
    IN Flag([valid |-> TRUE, invalid_administrations |-> <<>>],
            "invalid_administrations", invalid_administrations)

\* ---------------------------------------------------- statistical_analysis.py
required_fields == <<"diabeticStatus", "startTime", "bloodGlucose", "insulinInfusion",
                     "insulinBolus", "nutritionInfusion", "nutritionBolus">>

\* The loop of check_required_fields over the episodes and the fields:
\* missing is the list built so far.
RECURSIVE MissingFields(_, _, _, _)
MissingFields(episodes, e, f, missing) ==
    IF e > Len(episodes) THEN missing
    ELSE IF f > Len(required_fields) THEN MissingFields(episodes, e + 1, 1, missing)
    ELSE LET field == required_fields[f]
         IN IF ~HasKey(episodes[e], field)
               /\ \A i \in 1..Len(missing) : missing[i] # field
            THEN MissingFields(episodes, e, f + 1, Append(missing, field))
            ELSE MissingFields(episodes, e, f + 1, missing)

\* A check that asks for the seven fields in some episode only.
check_required_fields_AnyEpisode(data) ==
    IF HasKey(data, "episodes")
    THEN LET found == {required_fields[f] : f \in
                         {g \in 1..Len(required_fields) :
                            \E e \in 1..Len(data["episodes"]) :
                              HasKey(data["episodes"][e], required_fields[g])}}
             missing_fields == SelectSeq(required_fields, LAMBDA field : field \notin found)
         IN [valid |-> missing_fields = <<>>, missing_fields |-> missing_fields]
    ELSE [valid |-> FALSE, missing_fields |-> <<"episodes">>]

\* A field missing again in a later episode sets valid to False again and
\* appends nothing: missing_fields holds each missing field once.
check_required_fields(data) ==
    IF HasKey(data, "episodes")
    THEN LET missing_fields == MissingFields(data["episodes"], 1, 1, <<>>)
         IN Flag([valid |-> TRUE, missing_fields |-> <<>>],
                 "missing_fields", missing_fields)
    ELSE [valid |-> FALSE, missing_fields |-> <<"episodes">>]

\* infusion_data.get("rate", 0)
RateOf(d) == IF HasKey(d, "rate") THEN d["rate"] ELSE Some(0)
\* The timeline of an episode before it is sorted: the insulin infusions,
\* then the nutrition infusions, each as <<timestamp, type, rate>>.
Timeline(episode) ==
    LET insulin == Entries(episode, "insulinInfusion")
        nutrition == Entries(episode, "nutritionInfusion")
    IN [i \in 1..Len(insulin) |-> <<insulin[i][1], "insulin", RateOf(insulin[i][2])>>]
       \o [i \in 1..Len(nutrition) |->
             <<nutrition[i][1], "nutrition", RateOf(nutrition[i][2])>>]

\* timeline.sort(key=lambda x: x[0]): a stable sort by timestamp.
\* An insertion that puts an event before the events of the same instant.
RECURSIVE InsertSorted_TiesReversed(_, _)
InsertSorted_TiesReversed(sorted, x) ==
    IF sorted = <<>> THEN <<x>>
    ELSE IF ~DtLeq(x[1], sorted[Len(sorted)][1]) THEN Append(sorted, x)
    ELSE Append(InsertSorted_TiesReversed(SubSeq(sorted, 1, Len(sorted) - 1), x),
                sorted[Len(sorted)])

RECURSIVE InsertSorted(_, _)
InsertSorted(sorted, x) ==
    IF sorted = <<>> THEN <<x>>
    ELSE IF DtLeq(sorted[Len(sorted)][1], x[1]) THEN Append(sorted, x)
    ELSE Append(InsertSorted(SubSeq(sorted, 1, Len(sorted) - 1), x), sorted[Len(sorted)])
RECURSIVE SortedByTime(_)
SortedByTime(timeline) ==
    IF timeline = <<>> THEN <<>>
    ELSE InsertSorted(SortedByTime(SubSeq(timeline, 1, Len(timeline) - 1)),
                      timeline[Len(timeline)])

\* rate if rate is not None else 0
RateOrZero(rate) == IF IsNone(rate) THEN 0 ELSE Get(rate)

\* A walk that judges each event by its own rate only.
RECURSIVE WalkTimeline_PerEvent(_, _, _)
WalkTimeline_PerEvent(timeline, current_insulin_rate, current_nutrition_rate) ==
    IF timeline = <<>> THEN <<>>
    ELSE LET step == timeline[1]
         IN (IF RateOrZero(step[3]) = 0
             THEN <<[timestamp |-> isoformat(step[1]),
                     insulin_rate |-> 0, nutrition_rate |-> 0]>>
             ELSE <<>>)
            \o WalkTimeline_PerEvent(Tail(timeline), 0, 0)

\* The loop over the sorted timeline: the violations recorded from the
\* given running rates on.
RECURSIVE WalkTimeline(_, _, _)
WalkTimeline(timeline, current_insulin_rate, current_nutrition_rate) ==
    IF timeline = <<>> THEN <<>>
    ELSE LET step == timeline[1]
             insulin == IF step[2] = "insulin" THEN RateOrZero(step[3])
                        ELSE current_insulin_rate
             nutrition == IF step[2] = "nutrition" THEN RateOrZero(step[3])
                          ELSE current_nutrition_rate
         IN (IF insulin = 0 /\ nutrition = 0
             THEN <<[timestamp |-> isoformat(step[1]),
                     insulin_rate |-> insulin, nutrition_rate |-> nutrition]>>
             ELSE <<>>)
            \o WalkTimeline(Tail(timeline), insulin, nutrition)

check_iv_rates_not_null(data_with_datetime) ==
    LET of(episode) == WalkTimeline(SortedByTime(Timeline(episode)), 0, 0)
        episodes == Episodes(data_with_datetime)
        invalid_periods == Concat([e \in 1..Len(episodes) |-> of(episodes[e])])
    IN Flag([valid |-> TRUE, invalid_periods |-> <<>>], "invalid_periods", invalid_periods)

valid_statuses == {0, 1, 2}

\* A check that accepts the statuses 0 and 1 only.
check_diabetic_status_valid_Binary(data) ==
    LET with == SelectSeq(Episodes(data), LAMBDA episode : HasKey(episode, "diabeticStatus"))
        invalid_statuses ==
          SelectSeq([e \in 1..Len(with) |-> with[e]["diabeticStatus"]],
                    LAMBDA status : status \notin {0, 1})
    IN [valid |-> invalid_statuses = <<>>, invalid_statuses |-> invalid_statuses]

check_diabetic_status_valid(data) ==
    LET with == SelectSeq(Episodes(data), LAMBDA episode : HasKey(episode, "diabeticStatus"))
        invalid_statuses ==
          SelectSeq([e \in 1..Len(with) |-> with[e]["diabeticStatus"]],
                    LAMBDA status : status \notin valid_statuses)
    IN Flag([valid |-> TRUE, invalid_statuses |-> <<>>],
            "invalid_statuses", invalid_statuses)

MeasurementWindowHours == 6
MinMeasurements == 3

\* A check that takes an episode without glucose events for a failure.
check_blood_glucose_measurements_EmptyFails(data_with_datetime) ==
    LET entry(episode) ==
          LET entries == Entries(episode, "bloodGlucose")
              last_bg_timestamp == LastTimestamp(entries)
              window_end == Get(last_bg_timestamp)
              window_start == MinusHours(window_end, MeasurementWindowHours)
          IN IF IsNone(last_bg_timestamp)
             THEN <<[window_start |-> None, window_end |-> None, count |-> 0]>>
             ELSE <<[window_start |-> isoformat(window_start),
                     window_end |-> isoformat(window_end),
                     count |-> Len(SelectSeq(entries,
                                 LAMBDA e : InWindow(window_start, e[1], window_end)))]>>
        episodes == Episodes(data_with_datetime)
        measurement_counts == Concat([e \in 1..Len(episodes) |-> entry(episodes[e])])
    IN [valid |-> \A i \in 1..Len(measurement_counts) :
                    measurement_counts[i].count >= MinMeasurements,
        measurement_counts |-> measurement_counts]

check_blood_glucose_measurements(data_with_datetime) ==
    LET entry(episode) ==
          LET entries == Entries(episode, "bloodGlucose")
              last_bg_timestamp == LastTimestamp(entries)
              window_end == Get(last_bg_timestamp)
              window_start == MinusHours(window_end, MeasurementWindowHours)
          IN IF IsNone(last_bg_timestamp) THEN <<>>
             ELSE <<[window_start |-> isoformat(window_start),
                     window_end |-> isoformat(window_end),
                     count |-> Len(SelectSeq(entries,
                                 LAMBDA e : InWindow(window_start, e[1], window_end)))]>>
        episodes == Episodes(data_with_datetime)
        measurement_counts == Concat([e \in 1..Len(episodes) |-> entry(episodes[e])])
    IN [valid |-> \A i \in 1..Len(measurement_counts) :
                    measurement_counts[i].count >= MinMeasurements,
        measurement_counts |-> measurement_counts]

\* ------------------------------------------------- the files of a directory
\* An episode with the given fields present.
VEpisode(fields, status, glucose, insulinInfusion, insulinBolus, nutritionInfusion) ==
    [k \in fields |->
       CASE k = "diabeticStatus" -> status
         [] k = "startTime" -> Some(0)
         [] k = "bloodGlucose" -> glucose
         [] k = "insulinInfusion" -> insulinInfusion
         [] k = "insulinBolus" -> insulinBolus
         [] k = "nutritionInfusion" -> nutritionInfusion
         [] k = "nutritionBolus" -> <<>>]
VRecord(episodes) == Patient(TopKeys, UpdateTime, episodes)
\* The timestamp h hours (plus ms milliseconds) after the start.
At(h, ms) == Some(h * HourMs + ms)
\* The episodes of the input files, by what they are there for.
ValidatorEpisodes ==
    LET glucoseGood == <<<<At(18, 0), 500>>, <<At(19, 0), 600>>, <<At(20, 0), 700>>>>
        running == <<<<At(8, 0), [rate |-> Some(5)]>>>>
    IN [\* Three glucose events in the last six hours, all in range, with
        \* an intravenous insulin infusion twelve hours before the last.
        Good |-> VEpisode(AllChannels, 0, glucoseGood,
                          <<<<At(8, 0), [route |-> 0, rate |-> Some(2)]>>>>, <<>>,
                          running),
        \* Glucose values around both ends of the plausible range, listed
        \* out of order, with an event that has no value and an event with
        \* no element at all.
        GlucoseEnds |->
          VEpisode(AllChannels, 1,
                   <<<<At(20, 0), 119>>, <<At(14, 0), 120>>, <<At(19, 0), 11000>>,
                     <<At(18, 0), 11001>>, <<At(17, 0)>>, <<>>>>,
                   <<>>, <<>>, running),
        LowOnly |-> VEpisode({"bloodGlucose"}, 0, <<<<At(20, 0), 50>>>>,
                                <<>>, <<>>, <<>>),
        \* Insulin around both ends of the twelve-hour window of a glucose
        \* series that is listed latest first.
        Subcutaneous |->
          VEpisode(AllChannels, 2,
                   <<<<At(20, 0), 500>>, <<At(19, 0), 600>>, <<At(18, 0), 700>>>>,
                   <<<<At(7, HourMs - 1), [route |-> 1]>>, <<At(8, 0), [route |-> 1]>>,
                     <<At(20, 0), [route |-> 1, rate |-> Some(3)]>>,
                     <<At(20, 1), [route |-> 1]>>, <<At(10, 0), [route |-> 0]>>,
                     <<At(10, 0), <<>>>>>>,
                   <<<<At(8, 0), [route |-> 1]>>, <<At(20, 1), [route |-> 1]>>,
                     <<At(19, 0), [route |-> 2]>>, <<At(19, 0), [route |-> 1]>>>>,
                   running),
        \* Subcutaneous insulin in an episode whose only glucose event has
        \* no value, and in an episode that ends fifteen hours earlier.
        NoGlucoseSubcutaneous |->
          VEpisode(AllChannels, 0, <<<<At(19, 0)>>>>,
                   <<<<At(19, 0), [route |-> 1]>>>>, <<<<At(19, 0), [route |-> 1]>>>>,
                   running),
        EarlySubcutaneous |->
          VEpisode(AllChannels, 0, <<<<At(5, 0), 500>>, <<At(3, 0), 500>>>>,
                   <<<<At(10, 0), [route |-> 1]>>>>, <<<<At(4, 0), [route |-> 1]>>>>,
                   running),
        \* Infusions of one instant: insulin stopped and started again,
        \* nutrition stopped.
        Ties |->
          VEpisode(AllChannels, 0, glucoseGood,
                   <<<<At(10, 0), [rate |-> Some(0)]>>, <<At(10, 0), [rate |-> Some(3)]>>>>,
                   <<>>,
                   <<<<At(10, 0), [rate |-> Some(0)]>>, <<At(11, 0), [rate |-> Some(0)]>>>>),
        \* Infusion rates that are zero, null or missing on one channel
        \* while the other one runs or not.
        Rates |->
          VEpisode(AllChannels, 0, glucoseGood,
                   <<<<At(10, 0), [rate |-> Some(0)]>>, <<At(12, 0), [rate |-> Some(3)]>>,
                     <<At(14, 0), [rate |-> None]>>, <<At(16, 0), <<>>>>>>,
                   <<>>,
                   <<<<At(9, 0), [rate |-> Some(4)]>>, <<At(11, 0), [rate |-> Some(0)]>>,
                     <<At(13, 0), [rate |-> Some(0)]>>, <<At(15, 0), [rate |-> Some(2)]>>>>),
        RatesUnsorted |->
          VEpisode(AllChannels, 0, glucoseGood,
                   <<<<At(12, 0), [rate |-> Some(5)]>>, <<At(10, 0), [rate |-> Some(0)]>>>>,
                   <<>>,
                   <<<<At(10, 0), [rate |-> Some(0)]>>>>),
        \* Glucose series with two and with three events in the last six
        \* hours, and without events.
        TwoRecent |->
          VEpisode(AllChannels, 0,
                   <<<<At(13, HourMs - 1), 500>>, <<At(20, 0), 500>>, <<At(14, 0), 500>>>>,
                   <<>>, <<>>, running),
        ThreeRecent |->
          VEpisode(AllChannels, 0,
                   <<<<At(14, 0), 500>>, <<At(20, 0), 500>>, <<At(15, 0), 500>>,
                     <<At(2, 0), 500>>>>,
                   <<>>, <<>>, running),
        NoEvents |-> VEpisode(AllChannels, 0, <<>>, <<>>, <<>>, <<>>),
        NoGlucoseField |-> VEpisode(AllChannels \ {"bloodGlucose"}, 0, <<>>, <<>>, <<>>,
                                    <<>>),
        \* Episodes that lack fields, and episodes with other statuses.
        LacksTwo |-> VEpisode(AllChannels \ {"insulinBolus", "startTime"}, 0,
                              glucoseGood, <<>>, <<>>, running),
        LacksOther |-> VEpisode(AllChannels \ {"insulinBolus", "nutritionBolus"}, 0,
                                glucoseGood, <<>>, <<>>, running),
        Status2 |-> VEpisode(AllChannels, 2, glucoseGood, <<>>, <<>>, running),
        Status3 |-> VEpisode(AllChannels, 3, glucoseGood, <<>>, <<>>, running),
        Status7 |-> VEpisode(AllChannels, 7, glucoseGood, <<>>, <<>>, running),
        NoStatus |-> VEpisode(AllChannels \ {"diabeticStatus"}, 0, glucoseGood,
                              <<>>, <<>>, running),
        \* A glucose event whose timestamp is a string.
        TextStamp |-> VEpisode(AllChannels, 0,
                               <<<<At(18, 0), 500>>, <<NotNumber, 600>>>>,
                               <<>>, <<>>, <<>>)]

ValidatorRecords ==
    LET ep == ValidatorEpisodes
    IN {VRecord(<<ep.Good>>),
        VRecord(<<ep.GlucoseEnds, ep.LowOnly>>),
        VRecord(<<ep.Subcutaneous, ep.Good>>),
        VRecord(<<ep.Rates, ep.RatesUnsorted>>),
        VRecord(<<ep.TwoRecent, ep.NoEvents, ep.NoGlucoseField>>),
        VRecord(<<ep.NoEvents, ep.ThreeRecent>>),
        VRecord(<<ep.LacksTwo, ep.LacksOther>>),
        VRecord(<<>>),
        Patient(TopKeys \ {"episodes"}, UpdateTime, <<>>),
        VRecord(<<ep.Status3, ep.NoStatus, ep.Status2, ep.Status7>>),
        VRecord(<<ep.Good, ep.TextStamp>>),
        VRecord(<<ep.NoGlucoseSubcutaneous, ep.Subcutaneous, ep.EarlySubcutaneous,
                  ep.Ties>>)}

\* A file of the directory: whether its name ends with ".json", whether its
\* bytes are text, whether the text is JSON, and the value json.load
\* returns: null, a number or an object.
VFile(name_json, text, value) == [name_json |-> name_json, text |-> text, value |-> value]
JsonNull == [kind |-> "null", obj |-> <<>>]
JsonNumber == [kind |-> "number", obj |-> <<>>]
JsonObject(obj) == [kind |-> "object", obj |-> obj]
ValidatorFiles ==
    {VFile(TRUE, "json", JsonObject(r)) : r \in ValidatorRecords}
    \cup {VFile(TRUE, "undecodable", JsonNull), VFile(TRUE, "not_json", JsonNull),
          VFile(TRUE, "json", JsonNull), VFile(TRUE, "json", JsonNumber),
          VFile(FALSE, "not_json", JsonNull)}
\* Largest number of entries of the directory of a validator batch.
MaxListing == 2
Listings == UNION {[1..n -> ValidatorFiles] : n \in 0..MaxListing}

\* with open(file_path, "r") as f: data = json.load(f), with the handler
\* for json.JSONDecodeError: the exception that escapes (or None) and the
\* data (None for a skipped file). Reading bytes that are not text raises
\* UnicodeDecodeError, which is not a JSONDecodeError.
LoadOrSkip(file) ==
    IF file.text = "undecodable"
    THEN [raised |-> Some("UnicodeDecodeError: invalid start byte"), data |-> None]
    ELSE IF file.text = "not_json" \/ file.value.kind = "null"
    THEN [raised |-> None, data |-> None]
    ELSE [raised |-> None, data |-> Some(file.value)]

\* unix_to_datetime on the loaded value: "episodes" not in result raises
\* TypeError for a number.
ConvertLoaded(value) ==
    IF value.kind = "number"
    THEN [raised |-> Some("TypeError: argument of type 'int' is not iterable"),
          arg |-> value.obj, result |-> None]
    ELSE unix_to_datetime(value.obj)

ExpertChecks == {"criterion_1", "criterion_2"}
StatisticalChecks == {"check_1", "check_2", "check_3", "check_4"}
\* results[check].update({filename: result})
Update(by_file, filename, by_check) ==
    [c \in DOMAIN by_file |-> (filename :> by_check[c]) @@ by_file[c]]

\* The results of the checks of a batch for one file, by check: the
\* required fields and the diabetic status are checked on data, the others
\* on data_with_datetime.
ChecksOf(batch, data, data_with_datetime) ==
    IF batch = "expert"
    THEN [c \in ExpertChecks |->
            IF c = "criterion_1"
            THEN check_blood_glucose_values(data_with_datetime)
            ELSE check_subcataneous_insulin(data_with_datetime)]
    ELSE [c \in StatisticalChecks |->
            CASE c = "check_1" -> check_required_fields(data)
              [] c = "check_2" -> check_iv_rates_not_null(data_with_datetime)
              [] c = "check_3" -> check_diabetic_status_valid(data)
              [] c = "check_4" -> check_blood_glucose_measurements(data_with_datetime)]

\* One pass of the loop of a batch over os.listdir: the entry at v_index is
\* passed over, skipped, or converted and checked; an exception ends the
\* batch.
LoopPass ==
    LET filename == v_index
        file == v_listing[v_index]
        loaded == LoadOrSkip(file)
        converted == ConvertLoaded(Get(loaded.data))
    IN IF ~file.name_json
       THEN /\ v_index' = v_index + 1
            /\ UNCHANGED <<v_pc, v_results, v_exc, v_data, v_data_with_datetime>>
       ELSE IF ~IsNone(loaded.raised)
       THEN /\ v_pc' = "raised"
            /\ v_exc' = loaded.raised
            /\ UNCHANGED <<v_index, v_results, v_data, v_data_with_datetime>>
       ELSE IF IsNone(loaded.data)
       THEN /\ v_index' = v_index + 1
            /\ UNCHANGED <<v_pc, v_results, v_exc, v_data, v_data_with_datetime>>
       ELSE IF ~IsNone(converted.raised)
       THEN /\ v_pc' = "raised"
            /\ v_exc' = converted.raised
            /\ UNCHANGED <<v_index, v_results, v_data, v_data_with_datetime>>
       ELSE /\ v_data' = Some(converted.arg)
            /\ v_data_with_datetime' = converted.result
            /\ v_results' = Update(v_results, filename,
                                   ChecksOf(v_batch, converted.arg,
                                            Get(converted.result)))
            /\ v_index' = v_index + 1
            /\ UNCHANGED <<v_pc, v_exc>>

\* do_expert_knowledge_check: the body of the loop for one directory entry.
ExpertFile ==
    /\ v_batch = "expert"
    /\ v_pc = "loop"
    /\ v_index <= Len(v_listing)
    /\ LoopPass
    /\ UNCHANGED <<v_batch, v_listing>>
    /\ UNCHANGED <<normVars, evalVars, harnessVars, argVars, loopVars, wrapperVars, pc,
                   actual_value, pred_interval, exc, is_in_range>>

\* do_statistical_analysis: the body of the loop for one directory entry.
StatisticalFile ==
    /\ v_batch = "statistical"
    /\ v_pc = "loop"
    /\ v_index <= Len(v_listing)
    /\ LoopPass
    /\ UNCHANGED <<v_batch, v_listing>>
    /\ UNCHANGED <<normVars, evalVars, harnessVars, argVars, loopVars, wrapperVars, pc,
                   actual_value, pred_interval, exc, is_in_range>>

\* After the loop the results are written to the output file.
WriteResults ==
    /\ v_pc = "loop"
    /\ v_index > Len(v_listing)
    /\ v_pc' = "written"
    /\ UNCHANGED <<v_batch, v_listing, v_index, v_results, v_exc, v_data,
                   v_data_with_datetime>>
    /\ UNCHANGED <<normVars, evalVars, harnessVars, argVars, loopVars, wrapperVars, pc,
                   actual_value, pred_interval, exc, is_in_range>>

\* do_expert_knowledge_check or do_statistical_analysis is called for an
\* existing directory.
InitValidate ==
    /\ files = <<>>
    /\ max_workers = DefaultMaxWorkers
    /\ main_pc = "idle"
    /\ futures = [t \in Threads |-> None]
    /\ results = <<>>
    /\ pc = [t \in Threads |-> "idle"]
    /\ patient_data = [t \in Threads |-> None]
    /\ prediction_time = [t \in Threads |-> 0]
    /\ actual_value = [t \in Threads |-> None]
    /\ num_retries = [t \in Threads |-> DefaultNumRetries]
    /\ retry_delay = [t \in Threads |-> DefaultRetryDelay]
    /\ attempt = [t \in Threads |-> 0]
    /\ response = [t \in Threads |-> None]
    /\ result = [t \in Threads |-> None]
    /\ pred_interval = [t \in Threads |-> None]
    /\ exc = [t \in Threads |-> None]
    /\ is_in_range = [t \in Threads |-> None]
    /\ requests = [t \in Threads |-> 0]
    /\ sleeps = [t \in Threads |-> <<>>]
    /\ _last_response = None
    /\ _last_prediction_interval = None
    /\ _last_prediction_class = None
    /\ EvalIdle
    /\ NormIdle
    /\ v_batch \in {"expert", "statistical"}
    /\ v_listing \in Listings
    /\ v_index = 1
    /\ v_pc = "loop"
    /\ v_results = [c \in IF v_batch = "expert" THEN ExpertChecks ELSE StatisticalChecks
                     |-> <<>>]
    /\ v_exc = None
    /\ v_data = None
    /\ v_data_with_datetime = None

NextValidate ==
    \/ ExpertFile
    \/ StatisticalFile
    \/ WriteResults

SpecValidate == InitValidate /\ [][NextValidate]_vars

\* ------------------------------------------------ a caller of unix_to_datetime
\* Largest number of episodes of a record given to unix_to_datetime.
MaxEpisodes == 2
\* The records given to unix_to_datetime: with up to MaxEpisodes of the
\* episodes above, or without the "episodes" key.
NormalizerRecords ==
    LET episodes == {ValidatorEpisodes[k] : k \in DOMAIN ValidatorEpisodes}
    IN {VRecord(eps) : eps \in UNION {[1..n -> episodes] : n \in 0..MaxEpisodes}}
       \cup {Patient(TopKeys \ {"episodes"}, UpdateTime, <<>>)}

\* once = unix_to_datetime(record)
Normalize ==
    /\ n_pc = "start"
    /\ LET call == unix_to_datetime(Get(n_record))
       IN /\ n_record' = Some(call.arg)
          /\ n_once' = call.result
          /\ n_exc' = call.raised
          /\ n_pc' = IF IsNone(call.raised) THEN "once" ELSE "raised"
    /\ UNCHANGED n_twice
    /\ UNCHANGED <<valVars, evalVars, harnessVars, argVars, loopVars, wrapperVars, pc,
                   actual_value, pred_interval, exc, is_in_range>>

\* twice = unix_to_datetime(once)
NormalizeAgain ==
    /\ n_pc = "once"
    /\ LET call == unix_to_datetime(Get(n_once))
       IN /\ n_once' = Some(call.arg)
          /\ n_twice' = call.result
          /\ n_exc' = call.raised
          /\ n_pc' = IF IsNone(call.raised) THEN "twice" ELSE "raised"
    /\ UNCHANGED n_record
    /\ UNCHANGED <<valVars, evalVars, harnessVars, argVars, loopVars, wrapperVars, pc,
                   actual_value, pred_interval, exc, is_in_range>>

\* A caller holds a record and is about to convert it.
InitNormalize ==
    /\ files = <<>>
    /\ max_workers = DefaultMaxWorkers
    /\ main_pc = "idle"
    /\ futures = [t \in Threads |-> None]
    /\ results = <<>>
    /\ pc = [t \in Threads |-> "idle"]
    /\ patient_data = [t \in Threads |-> None]
    /\ prediction_time = [t \in Threads |-> 0]
    /\ actual_value = [t \in Threads |-> None]
    /\ num_retries = [t \in Threads |-> DefaultNumRetries]
    /\ retry_delay = [t \in Threads |-> DefaultRetryDelay]
    /\ attempt = [t \in Threads |-> 0]
    /\ response = [t \in Threads |-> None]
    /\ result = [t \in Threads |-> None]
    /\ pred_interval = [t \in Threads |-> None]
    /\ exc = [t \in Threads |-> None]
    /\ is_in_range = [t \in Threads |-> None]
    /\ requests = [t \in Threads |-> 0]
    /\ sleeps = [t \in Threads |-> <<>>]
    /\ _last_response = None
    /\ _last_prediction_interval = None
    /\ _last_prediction_class = None
    /\ EvalIdle
    /\ ValIdle
    /\ n_pc = "start"
    /\ n_record \in {Some(r) : r \in NormalizerRecords}
    /\ n_once = None
    /\ n_twice = None
    /\ n_exc = None

NextNormalize ==
    \/ Normalize
    \/ NormalizeAgain

SpecNormalize == InitNormalize /\ [][NextNormalize]_vars

\* ======================================================== the properties
NFiles == Len(files)
OutcomeOf(t) == Get(Get(futures[t]).outcome)
HasBounds(r) == r.kind = "Body" /\ HasKey(r.body, "BG5TH") /\ HasKey(r.body, "BG95TH")
\* The endpoint answered the task's latest request with both bounds.
Answered(t) == ~IsNone(response[t]) /\ HasBounds(Get(response[t]))

\* C1: parallel_predict_patients returns exactly one outcome per JSON file of
\* the directory: no exception of a task reaches the batch call, a finished
\* task always carries an outcome for its own file, a failed outcome has
\* success = FALSE and an error message (the one of the exception raised for
\* that file), and when the call returns the results hold each file once.
C1_OneOutcomePerFile ==
    /\ main_pc # "raised"
    /\ \A t \in Tasks :
         ~IsNone(futures[t]) =>
           /\ t \in 1..NFiles
           /\ IsNone(Get(futures[t]).exception)
           /\ ~IsNone(Get(futures[t]).outcome)
           /\ OutcomeOf(t).file_name = t
           /\ OutcomeOf(t).success = IsNone(OutcomeOf(t).error_message)
           /\ ~files[t].json =>
                OutcomeOf(t).error_message = Some("JSONDecodeError: Invalid JSON in file")
           /\ (files[t].json /\ files[t].data = RecNoGlucose) =>
                OutcomeOf(t).error_message = Some("IndexError: list index out of range")
    /\ \A i, j \in 1..Len(results) : results[i].file_name = results[j].file_name => i = j
    /\ \A i \in 1..Len(results) : results[i] = OutcomeOf(results[i].file_name)
    /\ main_pc = "returned" =>
         /\ Len(results) = NFiles
         /\ Collected = 1..NFiles

\* C1 witness: the call has returned one outcome for each of NumFiles files,
\* one of them failed in loading and another one in predicting.
C1_Witness ==
    /\ main_pc = "returned"
    /\ NFiles = NumFiles
    /\ \E i, j \in 1..Len(results) :
         /\ results[i].error_message = Some("JSONDecodeError: Invalid JSON in file")
         /\ results[j].error_message = Some("RuntimeError: API request timed out")

\* C2: when the call has returned and every file that is valid JSON is a
\* valid record with an in-range prediction time whose request the endpoint
\* answered with both bounds, exactly the invalid-JSON files have ok = FALSE.
C2_OnlyInvalidFilesFail ==
    (/\ main_pc = "returned"
     /\ \A t \in 1..NFiles : files[t].json => (files[t].data = RecValid /\ Answered(t)))
    => /\ Len(results) = NFiles
       /\ \A i \in 1..Len(results) : results[i].success = files[results[i].file_name].json

\* C3: the interval a task holds after its predict call returned is the one
\* of the response to that task's own request, whatever the other tasks do.
C3_OwnInterval ==
    \A t \in Tasks :
      pc[t] = "returned" =>
        pred_interval[t] = Some(Interval(Get(result[t]).BG5TH, Get(result[t]).BG95TH))

\* ---------------------------------------------- a direct call of predict
c_pd == Get(patient_data[Client])
Called == ~IsNone(patient_data[Client])
LastResponse == Get(response[Client])
RECURSIVE SumWaits(_)
SumWaits(s) == IF s = <<>> THEN 0 ELSE s[1].wait_time + SumWaits(Tail(s))

\* C4: a predict call that returned with num_retries > 0 has made exactly j
\* requests, where the j - 1 earlier ones failed and were each followed by one
\* sleep, j <= num_retries, and it returns the bounds of the j-th response;
\* with num_retries = 3 and retry_delay = 1 s a return on the third request
\* has slept at least 1 s + 2 s. A response with both bounds ends the loop.
C4_RetryUntilSuccess ==
    /\ (Called /\ pc[Client] = "returned" /\ num_retries[Client] > 0) =>
         /\ requests[Client] = Len(sleeps[Client]) + 1
         /\ requests[Client] = attempt[Client] + 1
         /\ requests[Client] <= num_retries[Client]
         /\ HasBounds(LastResponse)
         /\ pred_interval[Client] =
              Some([BG5TH |-> LastResponse.body.BG5TH, BG95TH |-> LastResponse.body.BG95TH])
         /\ (num_retries[Client] = 3 /\ retry_delay[Client] = 1 /\ requests[Client] = 3) =>
              SumWaits(sleeps[Client]) >= 1 + 2
    /\ (~IsNone(response[Client]) /\ HasBounds(LastResponse)) =>
         pc[Client] \in {"store", "return", "returned", "checked"}

\* C4 witness: num_retries = 3, retry_delay = 1, two failed requests, sleeps
\* of 1 s and 2 s, and the third request's interval returned.
C4_Witness ==
    /\ pc[Client] = "returned"
    /\ num_retries[Client] = 3
    /\ retry_delay[Client] = 1
    /\ requests[Client] = 3
    /\ sleeps[Client] = <<[attempt |-> 0, wait_time |-> 1], [attempt |-> 1, wait_time |-> 2]>>
    /\ pred_interval[Client] = Some(Interval(600, 800))

\* C5: when predict gives up on transport errors it has made num_retries + 1
\* requests: the first one and num_retries retries.
C5_MaxRetriesFurtherRequests ==
    (pc[Client] = "raised" /\ Get(exc[Client]) \in UpstreamErrors) =>
        requests[Client] = num_retries[Client] + 1

\* C6: the i-th sleep of a predict call follows the failed attempt with index
\* i - 1 and lasts retry_delay * 2^(i-1); there is no sleep before the first
\* request, one sleep between two consecutive requests, and none after the
\* last request, whether it succeeded or failed.
C6_ExponentialBackoff ==
    /\ \A i \in 1..Len(sleeps[Client]) :
         /\ sleeps[Client][i].attempt = i - 1
         /\ sleeps[Client][i].wait_time = retry_delay[Client] * (2 ^ (i - 1))
    /\ requests[Client] = 0 => sleeps[Client] = <<>>
    /\ pc[Client] \in {"sleep", "request"} => Len(sleeps[Client]) = requests[Client]
    /\ (pc[Client] \in {"store", "return", "returned", "raised", "checked"}
          /\ requests[Client] > 0) =>
         Len(sleeps[Client]) = requests[Client] - 1

\* C6 witness: four failed requests with retry_delay = 2: sleeps of 2, 4 and
\* 8 s, and the call has raised without a sleep after the last request.
C6_Witness ==
    /\ pc[Client] = "raised"
    /\ retry_delay[Client] = 2
    /\ requests[Client] = 4
    /\ Len(sleeps[Client]) = 3
    /\ sleeps[Client][3].wait_time = 8

MissingBounds(r) == r.kind = "Body" /\ ~HasBounds(r)

\* C7: the request whose response lacks BG5TH or BG95TH makes predict raise at
\* once, without a sleep and leaving the stored last response and interval
\* as they were; once predict has raised no request or sleep follows.
C7_MissingBoundsNotRetried ==
    [][/\ (requests'[Client] = requests[Client] + 1 /\ MissingBounds(Get(response'[Client]))) =>
            /\ pc'[Client] = "raised"
            /\ exc'[Client] = Some("RuntimeError: Error processing API response")
            /\ sleeps' = sleeps
            /\ _last_prediction_interval' = _last_prediction_interval
            /\ _last_response' = _last_response
       /\ pc[Client] = "raised" => (requests' = requests /\ sleeps' = sleeps)]_vars

\* C7 witness: the first response lacked a bound; predict has raised after
\* that single request and an interval stored earlier is still there.
C7_Witness ==
    /\ pc[Client] = "raised"
    /\ requests[Client] = 1
    /\ MissingBounds(LastResponse)
    /\ sleeps[Client] = <<>>
    /\ _last_prediction_interval = Some(Interval(600, 800))

\* C8: a predict call whose record shape or prediction time is invalid raises
\* ValueError, and a call that raised ValueError has issued no request and
\* has not slept, whatever num_retries and retry_delay are.
C8_InvalidInputNotRetried ==
    /\ (pc[Client] = "raised" /\ Get(exc[Client]) \in ValueErrors) =>
         /\ requests[Client] = 0
         /\ sleeps[Client] = <<>>
         /\ IsNone(response[Client])
    /\ (/\ Called
        /\ pc[Client] # "validate"
        /\ \/ ~IsNone(_validate_patient_data(c_pd))
           \/ ~IsNone(_validate_prediction_time(c_pd, prediction_time[Client]))) =>
         /\ pc[Client] = "raised"
         /\ Get(exc[Client]) \in ValueErrors

\* C8 witness: a late prediction time with the largest num_retries and
\* retry_delay: ValueError, no request, no sleep.
C8_Witness ==
    /\ pc[Client] = "raised"
    /\ exc[Client] = Some("ValueError: Prediction time must be <= updateTime + 180 minutes")
    /\ num_retries[Client] = MaxRetries
    /\ retry_delay[Client] = MaxDelay
    /\ requests[Client] = 0

TimeErrors ==
    {"ValueError: Prediction time must be >= updateTime",
     "ValueError: Prediction time must be <= updateTime + 180 minutes"}
ShapeErrors == ValueErrors \ TimeErrors
TimeRejected == pc[Client] = "raised" /\ Get(exc[Client]) \in TimeErrors
ShapeRejected == pc[Client] = "raised" /\ Get(exc[Client]) \in ShapeErrors
Validated == Called /\ pc[Client] # "validate"

\* C9: for a record of valid shape, predict rejects the prediction time with
\* ValueError iff it lies outside [updateTime, updateTime + 10,800,000 ms];
\* both ends of the interval are accepted.
C9_PredictionTimeWindow ==
    (Validated /\ ~ShapeRejected) =>
        LET update_time == c_pd["updateTime"][1]
            inWindow == /\ update_time <= prediction_time[Client]
                        /\ prediction_time[Client] <= update_time + 10800000
        IN  inWindow <=> ~TimeRejected

\* C9 witness: predictionTime = updateTime + 10,800,000 ms was accepted and
\* the call went on to return an interval.
C9_Witness ==
    /\ Called
    /\ pc[Client] = "returned"
    /\ ~IsNone(pred_interval[Client])
    /\ prediction_time[Client] = c_pd["updateTime"][1] + 10800000

HasPredictChannels(episode) == PredictChannels \subseteq DOMAIN episode
HasTopKeys(pd) == {"__class", "hospitalID", "updateTime", "episodes"} \subseteq DOMAIN pd

\* C10 as claimed: predict accepts a record's shape iff it has the class tag,
\* the hospital identifier, the update time and at least one episode in which
\* the three channels are present.
C10_SomeEpisodeHasChannels ==
    Validated =>
        (~ShapeRejected <=>
            /\ HasTopKeys(c_pd)
            /\ \E i \in 1..Len(c_pd["episodes"]) : HasPredictChannels(c_pd["episodes"][i]))

\* C10 as amended: predict accepts a record's shape iff it has the class tag,
\* the hospital identifier, the update time and a non-empty list of episodes
\* whose first episode has the three channels present (empty or not).
C10_FirstEpisodeHasChannels ==
    Validated =>
        (~ShapeRejected <=>
            /\ HasTopKeys(c_pd)
            /\ c_pd["episodes"] # <<>>
            /\ HasPredictChannels(c_pd["episodes"][1]))

\* C10 witness: the first episode lacks a channel, a later one has all
\* three, and predict has rejected the record.
C10_Witness ==
    /\ Called
    /\ HasTopKeys(c_pd)
    /\ Len(c_pd["episodes"]) = 2
    /\ ~HasPredictChannels(c_pd["episodes"][1])
    /\ HasPredictChannels(c_pd["episodes"][2])
    /\ pc[Client] = "raised"
    /\ exc[Client] = Some("ValueError: Missing required field in episode")

\* ------------------------------------------------- the inside-interval check
c_interval == Get(_last_prediction_interval)
c_truth == Get(actual_value[Client])
c_inside == Get(is_in_range[Client]) = 1

\* C11: the inside-interval check answers true exactly when the ground truth
\* lies between the two bounds, both ends included: for the interval
\* {5.00, 10.00} it is true for 7.00, for 10.00 and for 5.00 and false for
\* 10.01; the stored classification says the same.
C11_InclusiveBothEnds ==
    pc[Client] = "checked" =>
      /\ Get(is_in_range[Client]) \in {0, 1}
      /\ c_inside <=> (c_interval.BG5TH <= c_truth /\ c_truth <= c_interval.BG95TH)
      /\ Get(_last_prediction_class).is_inside = c_inside
      /\ (c_interval = Interval(500, 1000) /\ c_truth \in {500, 700, 1000}) => c_inside
      /\ (c_interval = Interval(500, 1000) /\ c_truth \in {499, 1001}) => ~c_inside

\* C11 witness: the interval {5.00, 10.00} was checked against the ground
\* truth 10.00, its upper end, and the answer was true.
C11_Witness ==
    /\ pc[Client] = "checked"
    /\ c_interval = Interval(500, 1000)
    /\ c_truth = 1000
    /\ is_in_range[Client] = Some(1)

\* ------------------------------------------------ the shape of an outcome
IntervalFields == {"BG5TH", "BG95TH", "interval_center", "is_in_range", "ground_truth"}
Populated(o) == \A f \in IntervalFields : ~IsNone(o[f])
Unpopulated(o) == \A f \in IntervalFields : IsNone(o[f])
ExactlyOneSide(o) ==
    /\ Populated(o) \/ Unpopulated(o)
    /\ Populated(o) <=> IsNone(o.error_message)
    /\ o.success <=> Populated(o)

\* C12: every outcome the harness produces has either all five interval
\* fields (BG5TH, BG95TH, interval_center, is_in_range, ground_truth)
\* populated and no error detail, or none of them and an error detail: never
\* both, never neither; success is true exactly in the first case. This is
\* checked on the outcome of every finished task, on every collected result
\* and on the success dictionary of a task that holds its prediction.
C12_IntervalOrError ==
    /\ \A t \in Tasks : ~IsNone(futures[t]) => ExactlyOneSide(OutcomeOf(t))
    /\ \A i \in 1..Len(results) : ExactlyOneSide(results[i])
    /\ \A t \in Tasks :
         pc[t] = "returned" =>
           LET iv == Get(pred_interval[t])
               gt == Get(actual_value[t])
               o == SuccessOutcome(t, gt, iv, calculate_interval_midpoint(iv),
                                   IsInside(iv, gt))
           IN ExactlyOneSide(o) /\ o.success

\* C12 witness: a task that obtained its prediction and then failed has
\* finished: its outcome carries the error detail and no interval field.
C12_Witness ==
    \E t \in Tasks :
      /\ pc[t] = "done"
      /\ Answered(t)
      /\ ~OutcomeOf(t).success
      /\ Unpopulated(OutcomeOf(t))
      /\ OutcomeOf(t).error_message =
           Some("TypeError: got an unexpected keyword argument")

\* ------------------------------------------------------ the worker pool
\* C13: under fair scheduling, every request returning or timing out,
\* parallel_predict_patients eventually returns; it returns only after every
\* submitted file has finished and its outcome was collected, so no
\* submitted task is cancelled or skipped, whatever the other tasks do.
C13_BatchReturnsAfterAllTasks ==
    /\ <>(main_pc = "returned")
    /\ [](main_pc = "returned" =>
            \A t \in 1..NFiles :
              pc[t] = "done" /\ ~IsNone(futures[t]) /\ t \in Collected)

\* C13 witness: the call returned for NumFiles files although one task had
\* failed after the last retry of a failing upstream and another one had
\* gone through to the check of its prediction.
C13_Witness ==
    /\ main_pc = "returned"
    /\ NFiles = NumFiles
    /\ \E i, j \in 1..Len(results) :
         /\ results[i].error_message = Some("RuntimeError: API request failed")
         /\ results[j].error_message =
              Some("TypeError: got an unexpected keyword argument")

\* C14: a task that sleeps in its backoff or waits on the network blocks
\* only itself: when one task may stay stuck for ever and the pool is wider
\* than one worker (fewer than max_workers tasks are stuck), every other
\* submitted task still starts, issues its requests and finishes with its
\* outcome.
C14_StuckTaskBlocksOnlyItself ==
    \A t \in Tasks \ {Stuck} :
      (pc[t] = "queued" /\ max_workers > 1)
        ~> (pc[t] = "done" /\ ~IsNone(futures[t]) /\ ~IsNone(Get(futures[t]).outcome))

\* C14 witness: the stuck task is asleep between two attempts while another
\* task has issued its request, got its answer and finished.
C14_Witness ==
    /\ pc[Stuck] = "sleep"
    /\ max_workers > 1
    /\ \E t \in Tasks \ {Stuck} :
         pc[t] = "done" /\ Answered(t) /\ ~IsNone(Get(futures[t]).outcome)

\* The tasks that hold a worker thread: started and not yet finished.
Executing == {t \in Tasks : pc[t] # "idle" /\ pc[t] # "queued" /\ IsNone(futures[t])}

\* C15: at no time more than max_workers tasks execute; there is exactly
\* one task per file of the directory (a task exists for t exactly when t is
\* one of the files, and a finished task is never run again); and while
\* every worker is taken, a submitted task waits: it cannot start.
C15_AtMostMaxWorkers ==
    /\ Cardinality(Executing) <= max_workers
    /\ \A t \in Tasks : (pc[t] # "idle") <=> (t \in 1..NFiles)
    /\ \A t \in Tasks : ~IsNone(futures[t]) => pc[t] = "done"
    /\ \A t \in Tasks :
         (pc[t] = "queued" /\ Cardinality(Executing) = max_workers)
           => ~ENABLED TaskStart(t)
    /\ \A t \in Tasks :
         (pc[t] = "queued" /\ Cardinality(Executing) < max_workers)
           => ENABLED TaskStart(t)

\* C15 witness: in a pool of one worker a submitted task waits in the queue
\* while another one executes.
C15_Witness ==
    /\ max_workers = 1
    /\ Cardinality(Executing) = 1
    /\ \E t \in Tasks : pc[t] = "queued"

\* ------------------------------------------------------------ the metrics
\* calculate_metrics has run on the synthetic batch / on the real-world batch.
SynthMeasured == eval_pc \in {"metrics_rwd", "report", "saved", "raised"}
RwdMeasured == eval_pc \in {"report", "saved"} \/ (eval_pc = "raised" /\ ~IsNone(synth_metrics))
e_synth == Get(synth_predictions)
e_rwd == Get(rwd_predictions)
OkRows(df) == {i \in 1..Len(df) : df[i].success}
FailedRows(df) == {i \in 1..Len(df) : ~df[i].success}
OtherFailure(row) ==
    IF row.error_message = Some("JSONDecodeError: Invalid JSON in file")
    THEN FailureOutcome(row.file_name, "TypeError: got an unexpected keyword argument")
    ELSE FailureOutcome(row.file_name, "JSONDecodeError: Invalid JSON in file")
\* The frame without its failed rows, with one more failed row, and with
\* every failed row changed into another failure.
WithoutFailed(df) == SelectSeq(df, LAMBDA row : row.success)
WithOneMoreFailed(df) == Append(df, Row(Len(df) + 1, "failed_load"))
WithFailedChanged(df) ==
    [i \in 1..Len(df) |-> IF df[i].success THEN df[i] ELSE OtherFailure(df[i])]
FailedRowsIgnored(df, metrics) ==
    /\ calculate_metrics(WithoutFailed(df)).value = metrics
    /\ calculate_metrics(WithOneMoreFailed(df)).value = metrics
    /\ calculate_metrics(WithFailedChanged(df)).value = metrics

\* C16: the metrics are computed over the outcomes with ok = true only:
\* removing the failed outcomes of a batch, adding a failed outcome to it or
\* changing its failed outcomes into other failures leaves coverage_rate,
\* mae, rmse and mape as calculate_metrics computed them for the batch.
C16_FailedOutcomesDoNotCount ==
    /\ SynthMeasured => FailedRowsIgnored(e_synth, synth_metrics)
    /\ RwdMeasured => FailedRowsIgnored(e_rwd, rwd_metrics)

\* C16 witness: metrics were computed for a batch that holds a failed and a
\* successful outcome.
C16_Witness ==
    /\ SynthMeasured
    /\ ~IsNone(synth_metrics)
    /\ FailedRows(e_synth) # {}
    /\ OkRows(e_synth) # {}

\* The value of a metric that is not a number.
NaN == <<0, 0>>
NaNMetrics == [coverage_rate |-> NaN, mae |-> NaN, rmse |-> NaN, mape |-> NaN]

\* C17: for a batch (with at least one outcome) in which every outcome has
\* ok = false, calculate_metrics does not raise: it returns metrics whose
\* values are NaN.
C17_AllFailedGivesNaN ==
    (SynthMeasured /\ e_synth # <<>> /\ OkRows(e_synth) = {})
      => /\ eval_pc # "raised"
         /\ synth_metrics = Some(NaNMetrics)

RECURSIVE TotalError(_, _)
TotalError(df, rows) ==
    IF rows = {} THEN 0
    ELSE LET i == CHOOSE j \in rows : TRUE
         IN Abs(Get(df[i].ground_truth) - Get(df[i].interval_center))
              + TotalError(df, rows \ {i})
InsideRows(df) == {i \in OkRows(df) : Get(df[i].is_in_range) = 1}
CoverageAndMae(df, metrics) ==
    /\ Get(metrics).coverage_rate[1] * Cardinality(OkRows(df))
         = Cardinality(InsideRows(df)) * Get(metrics).coverage_rate[2]
    /\ Get(metrics).mae[1] * 100 * Cardinality(OkRows(df))
         = TotalError(df, OkRows(df)) * Get(metrics).mae[2]

\* C18: coverage_rate is the number of successful outcomes with the ground
\* truth inside the interval divided by the number of successful outcomes,
\* and mae is the mean of |ground truth - midpoint| over the successful
\* outcomes; for the outcomes (truth 100, midpoint 100, inside) and (truth
\* 200, midpoint 210, not inside) coverage_rate is 0.5 and mae is 5.0.
C18_CoverageAndMae ==
    /\ (SynthMeasured /\ ~IsNone(synth_metrics)) => CoverageAndMae(e_synth, synth_metrics)
    /\ (RwdMeasured /\ ~IsNone(rwd_metrics)) => CoverageAndMae(e_rwd, rwd_metrics)
    /\ (SynthMeasured /\ e_synth = <<Row(1, "ok100"), Row(2, "ok200")>>)
         => /\ Get(synth_metrics).coverage_rate = <<1, 2>>
            /\ Get(synth_metrics).mae = <<5, 1>>

\* C18 witness: the metrics of the two outcomes of the example were computed.
C18_Witness ==
    /\ SynthMeasured
    /\ e_synth = <<Row(1, "ok100"), Row(2, "ok200")>>
    /\ ~IsNone(synth_metrics)
    /\ Get(synth_metrics).mae = <<5, 1>>

\* ------------------------------------------------------------- the report
e_report == Get(adversarial_report)
\* An entry of a block, in the unit of the metric: a percentage-point entry
\* is a hundred times the rate.
EntryValue(block, entry) ==
    IF block \in PercentBlocks THEN Rat(entry[1], entry[2] * 100) ELSE entry
\* Half a unit of the last digit an entry shows: 0.005 percentage points or
\* 0.00005.
HalfUnit == <<1, 20000>>
RatLeq(x, y) == x[1] * y[2] <= y[1] * x[2]
RoundingOf(block, entry, x) == RatLeq(AbsDiff(EntryValue(block, entry), x), HalfUnit)
m_rwd(block) == Get(rwd_metrics)[MetricOf(block)]
m_synth(block) == Get(synth_metrics)[MetricOf(block)]
Swapped == create_adversarial_evaluation_report(Get(synth_metrics), Get(rwd_metrics))

\* C19 as stated: each block of the report holds the real-world value and
\* the synthetic value verbatim.
C19_RetainedVerbatim ==
    eval_pc = "saved" =>
      \A block \in ReportBlocks :
        /\ EntryValue(block, e_report[block].rwd) = m_rwd(block)
        /\ EntryValue(block, e_report[block].synthetic) = m_synth(block)

\* C19: the report holds one block per metric with the real-world value
\* and the synthetic value, each rounded to the digits the report shows
\* (two decimals of percentage points for coverage rate and MAPE, four
\* decimals for MAE and RMSE), and the difference |real - synthetic| of the
\* unrounded values, rounded the same way; no metric is dropped or merged;
\* swapping the two batches swaps the rwd and synthetic entries and leaves
\* every difference unchanged.
C19_RetainedRounded ==
    eval_pc = "saved" =>
      /\ DOMAIN e_report = ReportBlocks
      /\ \A block \in ReportBlocks :
           /\ DOMAIN e_report[block] = {"rwd", "synthetic", "difference"}
           /\ RoundingOf(block, e_report[block].rwd, m_rwd(block))
           /\ RoundingOf(block, e_report[block].synthetic, m_synth(block))
           /\ RoundingOf(block, e_report[block].difference,
                         AbsDiff(m_rwd(block), m_synth(block)))
           /\ Swapped[block].rwd = e_report[block].synthetic
           /\ Swapped[block].synthetic = e_report[block].rwd
           /\ Swapped[block].difference = e_report[block].difference

\* C19 witness: a report was saved for two batches whose metrics differ,
\* one of them with a MAPE that two decimals do not hold.
C19_Witness ==
    /\ eval_pc = "saved"
    /\ Get(rwd_metrics) # Get(synth_metrics)
    /\ Get(rwd_metrics).mape = <<1, 14>>
    /\ e_report["MAPE"].rwd = <<357, 50>>
    /\ e_report["MAE"].difference # <<0, 1>>

\* C20: for two existing directories do_adversarial_evaluation never ends
\* in an exception; in particular when the synthetic directory holds no
\* JSON file the evaluation still completes.
C20_EmptyDirectoryCompletes ==
    (SynthMeasured /\ e_synth = <<>>) => eval_pc # "raised"

\* -------------------------------------------------- the validator batches
\* The object of the file with the given name, as it is stored (timestamps
\* in milliseconds), its episodes and the events of a channel that have a
\* timestamp and a payload.
StoredObject(filename) == v_listing[filename].value.obj
StoredEpisodes(filename) ==
    IF "episodes" \in DOMAIN StoredObject(filename)
    THEN StoredObject(filename)["episodes"] ELSE <<>>
StoredEvents(episode, c) ==
    IF c \in DOMAIN episode THEN SelectSeq(episode[c], LAMBDA e : Len(e) >= 2) ELSE <<>>
\* The files of the batch that have an entry under a check.
Reported(check) == IF check \in DOMAIN v_results THEN DOMAIN v_results[check] ELSE {}
IsoOf(ms) == <<"iso", ms>>
LatestOf(events) ==
    CHOOSE m \in {Get(events[k][1]) : k \in 1..Len(events)} :
      \A k \in 1..Len(events) : Get(events[k][1]) <= m

\* The glucose events of a stored file outside [1.2, 110] mmol/L.
C21_OutOfRange(filename) ==
    Concat([e \in 1..Len(StoredEpisodes(filename)) |->
              SelectSeq(StoredEvents(StoredEpisodes(filename)[e], "bloodGlucose"),
                        LAMBDA bg : bg[2] < 120 \/ bg[2] > 11000)])

\* C21: check_blood_glucose_values answers valid = false exactly when some
\* glucose event of the file has a value below 1.2 or above 110 (both ends
\* are accepted), and invalid_values lists exactly the events out of range,
\* each with its timestamp and its value.
C21_GlucoseRange ==
    \A filename \in Reported("criterion_1") :
      LET entry == v_results["criterion_1"][filename]
          bad == C21_OutOfRange(filename)
      IN /\ entry.valid = (bad = <<>>)
         /\ entry.invalid_values =
              [k \in 1..Len(bad) |-> [timestamp |-> IsoOf(Get(bad[k][1])),
                                      glucose_value |-> bad[k][2]]]

\* C21 witness: a file with glucose values 1.19, 1.2, 110 and 110.01 was
\* checked and three of its events were listed.
C21_Witness ==
    \E filename \in Reported("criterion_1") :
      /\ ~v_results["criterion_1"][filename].valid
      /\ Len(v_results["criterion_1"][filename].invalid_values) = 3
      /\ \A v \in {119, 120, 11000, 11001} :
           \E k \in 1..Len(StoredEvents(StoredEpisodes(filename)[1], "bloodGlucose")) :
             StoredEvents(StoredEpisodes(filename)[1], "bloodGlucose")[k][2] = v

\* The insulin events of an episode with route 1 in the twelve hours up to
\* its latest glucose event, the infusions before the boluses.
C22_Subcutaneous(episode) ==
    LET glucose == StoredEvents(episode, "bloodGlucose")
        last == LatestOf(glucose)
        inside(c, type) ==
          LET hit == SelectSeq(StoredEvents(episode, c),
                       LAMBDA e : /\ "route" \in DOMAIN e[2]
                                  /\ e[2]["route"] = 1
                                  /\ last - 12 * 3600000 <= Get(e[1])
                                  /\ Get(e[1]) <= last)
          IN [k \in 1..Len(hit) |-> [timestamp |-> IsoOf(Get(hit[k][1])),
                                     type |-> type, route |-> 1]]
    IN IF glucose = <<>> THEN <<>>
       ELSE inside("insulinInfusion", "infusion") \o inside("insulinBolus", "bolus")

\* C22: check_subcataneous_insulin flags an insulin infusion or bolus event
\* exactly when its route is 1 and its time t satisfies
\* lastGlucose - 12h <= t <= lastGlucose, both ends included, where
\* lastGlucose is the largest glucose timestamp of the episode in whatever
\* order the glucose events are listed.
C22_SubcutaneousWindow ==
    \A filename \in Reported("criterion_2") :
      LET entry == v_results["criterion_2"][filename]
          flagged == Concat([e \in 1..Len(StoredEpisodes(filename)) |->
                               C22_Subcutaneous(StoredEpisodes(filename)[e])])
      IN /\ entry.invalid_administrations = flagged
         /\ entry.valid = (flagged = <<>>)

\* C22 witness: in an episode whose glucose events are listed latest first,
\* the events at both ends of the window were flagged and those one
\* millisecond outside were not.
C22_Witness ==
    \E filename \in Reported("criterion_2") :
      LET flagged == v_results["criterion_2"][filename].invalid_administrations
          glucose == StoredEvents(StoredEpisodes(filename)[1], "bloodGlucose")
          infusions == StoredEvents(StoredEpisodes(filename)[1], "insulinInfusion")
      IN /\ Len(flagged) = 4
         /\ Get(glucose[1][1]) > Get(glucose[Len(glucose)][1])
         /\ \E k \in 1..Len(flagged) : flagged[k].timestamp = IsoOf(8 * 3600000)
         /\ \E k \in 1..Len(flagged) : flagged[k].timestamp = IsoOf(20 * 3600000)
         /\ \E k \in 1..Len(infusions) : Get(infusions[k][1]) = 8 * 3600000 - 1
         /\ \E k \in 1..Len(infusions) : Get(infusions[k][1]) = 20 * 3600000 + 1

\* The infusion events of a stored episode, the insulin ones listed first,
\* with a null or missing rate read as 0.
C23_RateOf(d) == IF "rate" \in DOMAIN d /\ d["rate"] # <<>> THEN d["rate"][1] ELSE 0
C23_Events(episode) ==
    LET ins == StoredEvents(episode, "insulinInfusion")
        nut == StoredEvents(episode, "nutritionInfusion")
    IN [k \in 1..(Len(ins) + Len(nut)) |->
          IF k <= Len(ins)
          THEN [t |-> Get(ins[k][1]), type |-> "insulin", rate |-> C23_RateOf(ins[k][2])]
          ELSE [t |-> Get(nut[k - Len(ins)][1]), type |-> "nutrition",
                rate |-> C23_RateOf(nut[k - Len(ins)][2])]]
\* Event j is not after event k on the merged timeline (events of one
\* instant keep the order in which they are listed).
C23_NotAfter(ev, j, k) == ev[j].t < ev[k].t \/ (ev[j].t = ev[k].t /\ j <= k)
\* The rate of a channel after event k: that of its latest event so far.
C23_Running(ev, k, type) ==
    LET sofar == {j \in DOMAIN ev : ev[j].type = type /\ C23_NotAfter(ev, j, k)}
    IN IF sofar = {} THEN 0
       ELSE ev[CHOOSE j \in sofar : \A i \in sofar : C23_NotAfter(ev, i, j)].rate
\* The periods expected for an episode: one for every event after which
\* both channels stand at 0, in timeline order.
C23_Periods(episode) ==
    LET ev == C23_Events(episode)
        both == {k \in DOMAIN ev : /\ C23_Running(ev, k, "insulin") = 0
                                   /\ C23_Running(ev, k, "nutrition") = 0}
        nth(p) == CHOOSE k \in both :
                    Cardinality({j \in both : C23_NotAfter(ev, j, k)}) = p
    IN [p \in 1..Cardinality(both) |->
          [timestamp |-> IsoOf(ev[nth(p)].t), insulin_rate |-> 0, nutrition_rate |-> 0]]

\* C23: check_iv_rates_not_null walks the insulin and nutrition infusion
\* events of an episode merged in timestamp order, keeps a running rate per
\* channel (0 at the start; a missing or null rate counts as 0) and records
\* a violation exactly at the steps after which both running rates are 0.
C23_BothRatesZero ==
    \A filename \in Reported("check_2") :
      LET entry == v_results["check_2"][filename]
          periods == Concat([e \in 1..Len(StoredEpisodes(filename)) |->
                               C23_Periods(StoredEpisodes(filename)[e])])
      IN /\ entry.invalid_periods = periods
         /\ entry.valid = (periods = <<>>)

\* C23 witness: a file whose infusions carry zero, null and missing rates,
\* listed out of time order in one episode, was checked and four periods
\* were recorded, while some event with rate 0 was not recorded.
C23_Witness ==
    \E filename \in Reported("check_2") :
      LET eps == StoredEpisodes(filename)
          periods == v_results["check_2"][filename].invalid_periods
      IN /\ Len(periods) = 4
         /\ Len(eps) = 2
         /\ \E k \in DOMAIN C23_Events(eps[1]) :
              /\ C23_Events(eps[1])[k].rate = 0
              /\ \A p \in 1..Len(periods) :
                   periods[p].timestamp # IsoOf(C23_Events(eps[1])[k].t)
         /\ \E k \in 1..Len(eps[1]["insulinInfusion"]) :
              eps[1]["insulinInfusion"][k][2] = [rate |-> <<>>]
         /\ \E k \in 1..Len(eps[1]["insulinInfusion"]) :
              eps[1]["insulinInfusion"][k][2] = <<>>
         /\ Get(eps[2]["insulinInfusion"][1][1]) > Get(eps[2]["insulinInfusion"][2][1])

\* The entry expected for a stored episode with glucose events: the six
\* hours up to its latest glucose event and the number of glucose events in
\* them, both ends included.
C24_Count(episode) ==
    LET glucose == StoredEvents(episode, "bloodGlucose")
        last == LatestOf(glucose)
    IN [window_start |-> IsoOf(last - 6 * 3600000),
        window_end |-> IsoOf(last),
        count |-> Cardinality({k \in 1..Len(glucose) :
                                 /\ last - 6 * 3600000 <= Get(glucose[k][1])
                                 /\ Get(glucose[k][1]) <= last})]
C24_Counts(filename) ==
    Concat([e \in 1..Len(StoredEpisodes(filename)) |->
              IF StoredEvents(StoredEpisodes(filename)[e], "bloodGlucose") = <<>>
              THEN <<>> ELSE <<C24_Count(StoredEpisodes(filename)[e])>>])

C24_WitnessTooFew ==
    \E filename \in Reported("check_4") :
      LET entry == v_results["check_4"][filename]
      IN /\ ~entry.valid
         /\ Len(StoredEpisodes(filename)) = 3
         /\ Len(entry.measurement_counts) = 1
         /\ entry.measurement_counts[1].count = 2

\* The seven fields an episode must have.
C25_Fields == {"diabeticStatus", "startTime", "bloodGlucose", "insulinInfusion",
               "insulinBolus", "nutritionInfusion", "nutritionBolus"}
\* The fields some episode of a stored file lacks.
C25_Lacking(filename) ==
    {f \in C25_Fields : \E e \in 1..Len(StoredEpisodes(filename)) :
                          f \notin DOMAIN StoredEpisodes(filename)[e]}

\* C25: for a record with a list of episodes check_required_fields is valid
\* exactly when every episode has all seven fields, and missing_fields
\* holds each field that some episode lacks exactly once, however many
\* episodes lack it, and nothing else.
C25_RequiredFields ==
    \A filename \in Reported("check_1") :
      "episodes" \in DOMAIN StoredObject(filename) =>
        LET entry == v_results["check_1"][filename]
        IN /\ entry.valid = (C25_Lacking(filename) = {})
           /\ {entry.missing_fields[k] : k \in 1..Len(entry.missing_fields)}
                = C25_Lacking(filename)
           /\ Len(entry.missing_fields) = Cardinality(C25_Lacking(filename))

\* C25 witness: a file whose two episodes both lack insulinBolus and each
\* lack one more field was rejected with three names.
C25_Witness ==
    \E filename \in Reported("check_1") :
      LET entry == v_results["check_1"][filename]
          eps == StoredEpisodes(filename)
      IN /\ ~entry.valid
         /\ Len(eps) = 2
         /\ "insulinBolus" \notin DOMAIN eps[1]
         /\ "insulinBolus" \notin DOMAIN eps[2]
         /\ Len(entry.missing_fields) = 3

\* C26: for a record whose list of episodes is empty check_required_fields
\* returns valid = false with missing_fields = ["episodes"].
C26_EmptyEpisodesRejected ==
    \A filename \in Reported("check_1") :
      ("episodes" \in DOMAIN StoredObject(filename)
         /\ StoredObject(filename)["episodes"] = <<>>)
      => /\ ~v_results["check_1"][filename].valid
         /\ v_results["check_1"][filename].missing_fields = <<"episodes">>

\* What the code does for C26's record: it is accepted with no missing
\* field; the entry "episodes" is written for a record without the key.
C26_EmptyEpisodesAccepted ==
    \A filename \in Reported("check_1") :
      LET entry == v_results["check_1"][filename]
      IN IF "episodes" \notin DOMAIN StoredObject(filename)
         THEN ~entry.valid /\ entry.missing_fields = <<"episodes">>
         ELSE StoredObject(filename)["episodes"] = <<>>
                => entry.valid /\ entry.missing_fields = <<>>

\* The statuses outside {0, 1, 2} of the episodes of a stored file that
\* have a diabeticStatus, in episode order.
C27_Offending(filename) ==
    Concat([e \in 1..Len(StoredEpisodes(filename)) |->
              IF "diabeticStatus" \in DOMAIN StoredEpisodes(filename)[e]
                 /\ StoredEpisodes(filename)[e]["diabeticStatus"] \notin {0, 1, 2}
              THEN <<StoredEpisodes(filename)[e]["diabeticStatus"]>>
              ELSE <<>>])

\* C27: check_diabetic_status_valid is valid exactly when every episode
\* that has a diabeticStatus has one of 0, 1, 2; invalid_statuses holds the
\* offending values, one per offending episode in episode order; an
\* episode without the field is not a violation.
C27_DiabeticStatus ==
    \A filename \in Reported("check_3") :
      LET entry == v_results["check_3"][filename]
      IN /\ entry.invalid_statuses = C27_Offending(filename)
         /\ entry.valid = (C27_Offending(filename) = <<>>)

\* C27 witness: a file with the statuses 3, none, 2 and 7 was rejected
\* with the values 3 and 7 in that order.
C27_Witness ==
    \E filename \in Reported("check_3") :
      LET eps == StoredEpisodes(filename)
      IN /\ v_results["check_3"][filename].invalid_statuses = <<3, 7>>
         /\ Len(eps) = 4
         /\ "diabeticStatus" \notin DOMAIN eps[2]
         /\ eps[3]["diabeticStatus"] = 2

\* C27 second witness: a file whose episodes have the statuses 1 and none
\* was accepted.
C27_WitnessAccepted ==
    \E filename \in Reported("check_3") :
      LET eps == StoredEpisodes(filename)
      IN /\ v_results["check_3"][filename].valid
         /\ Len(eps) = 2
         /\ eps[1]["diabeticStatus"] = 1
         /\ "diabeticStatus" \notin DOMAIN eps[2]

\* The .json files of the listing by what they hold: bytes or text that is
\* not JSON, a patient record of the expected shape, or JSON of another
\* shape (null, a number, a record with a timestamp that is not a number).
JsonNamed == {i \in 1..Len(v_listing) : v_listing[i].name_json}
NotValidJson == {i \in JsonNamed : v_listing[i].text # "json"}
Undecodable == {i \in JsonNamed : v_listing[i].text = "undecodable"}
HasTextStamp(obj) ==
    \E e \in 1..Len(IF "episodes" \in DOMAIN obj THEN obj["episodes"] ELSE <<>>) :
      \E c \in EventChannels \cap DOMAIN obj["episodes"][e] :
        \E k \in 1..Len(obj["episodes"][e][c]) :
          /\ Len(obj["episodes"][e][c][k]) >= 1
          /\ obj["episodes"][e][c][k][1] = NotNumber
WellShaped == {i \in JsonNamed \ NotValidJson :
                 /\ v_listing[i].value.kind = "object"
                 /\ ~HasTextStamp(v_listing[i].value.obj)}
WrongShape == (JsonNamed \ NotValidJson) \ WellShaped

\* C28: a validator batch skips a file that is not valid JSON instead of
\* aborting: the batch does not end in an exception, that file has no entry
\* under any check, every well-shaped .json file has its entry under every
\* check, and the report is written. (Stated for directories without a
\* file of a wrong shape, which is the case of C29.)
C28_InvalidJsonSkipped ==
    (v_batch # "none" /\ WrongShape = {}) =>
      /\ v_pc # "raised"
      /\ v_pc = "written" =>
           \A check \in DOMAIN v_results :
             /\ Reported(check) \cap NotValidJson = {}
             /\ WellShaped \subseteq Reported(check)

\* What the code does for C28's files: text that is not JSON is skipped as
\* C28 says; bytes that are not text end the batch with the decoding error
\* and no report.
C28_OnlyTextIsSkipped ==
    (v_batch # "none" /\ WrongShape = {}) =>
      /\ v_pc = "raised" => /\ Undecodable # {}
                            /\ v_exc = Some("UnicodeDecodeError: invalid start byte")
      /\ (v_pc = "written" /\ Undecodable = {}) =>
           \A check \in DOMAIN v_results : Reported(check) = WellShaped
      /\ v_pc = "written" => Undecodable = {}

\* C29: a validator batch never ends in an exception because of one file:
\* a .json file that parses but has a wrong shape becomes data or a skip,
\* the other files have their entries, and the report is written. (Stated
\* for directories in which every .json file is text, see C28.)
C29_WrongShapeDoesNotAbort ==
    (v_batch # "none" /\ Undecodable = {}) =>
      /\ v_pc # "raised"
      /\ v_pc = "written" =>
           \A check \in DOMAIN v_results : WellShaped \subseteq Reported(check)

\* What the code does for C29's files: null is skipped; a number and a
\* record with a text timestamp end the batch with TypeError and no report.
C29_WrongShapeAborts ==
    (v_batch # "none" /\ Undecodable = {}) =>
      /\ v_pc = "raised" =>
           /\ \E i \in WrongShape : v_listing[i].value.kind # "null"
           /\ v_exc \in {Some("TypeError: unsupported operand type(s) for /"),
                         Some("TypeError: argument of type 'int' is not iterable")}
      /\ v_pc = "written" =>
           /\ \A i \in WrongShape : v_listing[i].value.kind = "null"
           /\ \A check \in DOMAIN v_results : Reported(check) = WellShaped

\* The file the batch converted and checked last.
LastChecked ==
    LET check == CHOOSE c \in DOMAIN v_results : TRUE
    IN CHOOSE f \in Reported(check) : \A g \in Reported(check) : g <= f
\* The returned events of a channel are those of the input, in the same
\* number and order, each with its timestamp converted and the rest equal.
C30_SameEvents(returned, given) ==
    /\ Len(returned) = Len(given)
    /\ \A k \in 1..Len(given) :
         /\ Len(returned[k]) = Len(given[k])
         /\ \A p \in 2..Len(given[k]) : returned[k][p] = given[k][p]
         /\ Len(given[k]) >= 1 => returned[k][1] = <<"datetime", Get(given[k][1])>>
C30_SameEpisode(returned, given) ==
    /\ DOMAIN returned = DOMAIN given
    /\ \A key \in DOMAIN given :
         IF key \in EventChannels THEN C30_SameEvents(returned[key], given[key])
         ELSE IF key = "startTime" THEN returned[key] = <<"datetime", Get(given[key])>>
         ELSE returned[key] = given[key]

\* C30: unix_to_datetime never changes its argument: after the call the
\* argument equals the stored record at every level; and the record it
\* returns has, in every channel of every episode, the same number of
\* events in the same order with every field but the timestamp equal to
\* the input's.
C30_InputUntouched ==
    (v_batch # "none" /\ ~IsNone(v_data)) =>
      LET given == StoredObject(LastChecked)
          returned == Get(v_data_with_datetime)
      IN /\ Get(v_data) = given
         /\ DOMAIN returned = DOMAIN given
         /\ \A key \in DOMAIN given \ {"episodes"} : returned[key] = given[key]
         /\ "episodes" \in DOMAIN given =>
              /\ Len(returned["episodes"]) = Len(given["episodes"])
              /\ \A e \in 1..Len(given["episodes"]) :
                   C30_SameEpisode(returned["episodes"][e], given["episodes"][e])

\* C30 witness: a record with two episodes, six insulin infusions with
\* different payloads and a glucose event without value was converted, and
\* the record returned differs from the argument.
C30_Witness ==
    /\ v_batch # "none"
    /\ ~IsNone(v_data)
    /\ Get(v_data_with_datetime) # Get(v_data)
    /\ Len(Get(v_data)["episodes"]) = 2
    /\ Len(Get(v_data)["episodes"][1]["insulinInfusion"]) = 6
    /\ Len(Get(v_data_with_datetime)["episodes"][1]["insulinInfusion"]) = 6
    /\ Get(v_data_with_datetime)["episodes"][1]["insulinInfusion"][3][1]
         = <<"datetime", 20 * 3600000>>

\* ------------------------------------------------ the caller of unix_to_datetime
\* Some event of some channel of the record has no element.
HasEmptyEvent(record) ==
    \E e \in 1..Len(IF "episodes" \in DOMAIN record THEN record["episodes"] ELSE <<>>) :
      \E c \in EventChannels \cap DOMAIN record["episodes"][e] :
        \E k \in 1..Len(record["episodes"][e][c]) : record["episodes"][e][c][k] = <<>>

\* C31: unix_to_datetime fails when some event of an episode channel has
\* zero elements; it never returns a record that still contains such an
\* event.
C31_EmptyEventRejected ==
    (n_pc = "once" /\ IsNone(n_twice)) => ~HasEmptyEvent(Get(n_once))

\* What the code does for C31's record: the event without elements is
\* passed over and returned as it is; the call fails for a timestamp that
\* is not a number only.
C31_EmptyEventKept ==
    /\ (n_pc = "once" /\ IsNone(n_twice)) =>
         (HasEmptyEvent(Get(n_once)) <=> HasEmptyEvent(Get(n_record)))
    /\ (n_pc = "raised" /\ IsNone(n_once)) => HasTextStamp(Get(n_record))

\* The record has a timestamp that unix_to_datetime converts: a startTime
\* or an event with at least one element.
HasTimestamp(record) ==
    \E e \in 1..Len(IF "episodes" \in DOMAIN record THEN record["episodes"] ELSE <<>>) :
      \/ "startTime" \in DOMAIN record["episodes"][e]
      \/ \E c \in EventChannels \cap DOMAIN record["episodes"][e] :
           \E k \in 1..Len(record["episodes"][e][c]) :
             Len(record["episodes"][e][c][k]) >= 1

\* C32: unix_to_datetime is idempotent: applied to a record it has
\* returned, it does not fail and returns that same record, with no
\* timestamp converted a second time.
C32_Idempotent ==
    /\ (n_pc = "raised") => IsNone(n_once)
    /\ (n_pc = "twice") => n_twice = n_once

\* What the code does for C32's call: on a returned record that holds any
\* timestamp the second call divides a datetime by 1000 and ends in
\* TypeError; only a record without timestamps comes back as it was.
C32_SecondCallFails ==
    /\ (n_pc = "raised" /\ ~IsNone(n_once)) =>
         /\ HasTimestamp(Get(n_once))
         /\ n_exc = Some("TypeError: unsupported operand type(s) for /")
         /\ IsNone(n_twice)
    /\ (n_pc = "twice") => (~HasTimestamp(Get(n_once)) /\ n_twice = n_once)

\* The number of infusion events of a stored episode at the instant ms
\* after which both running rates are 0, when the events of one instant
\* are taken in the order they are listed, insulin before nutrition.
C33_ZeroSteps(episode, ms) ==
    LET ev == C23_Events(episode)
    IN Cardinality({k \in DOMAIN ev : /\ ev[k].t = ms
                                      /\ C23_Running(ev, k, "insulin") = 0
                                      /\ C23_Running(ev, k, "nutrition") = 0})
RECURSIVE C33_Total(_, _)
C33_Total(episodes, ms) ==
    IF episodes = <<>> THEN 0
    ELSE C33_ZeroSteps(episodes[1], ms) + C33_Total(Tail(episodes), ms)
\* The instants of the infusion events of a stored file.
C33_Instants(filename) ==
    UNION {{C23_Events(StoredEpisodes(filename)[e])[k].t :
              k \in DOMAIN C23_Events(StoredEpisodes(filename)[e])} :
           e \in 1..Len(StoredEpisodes(filename))}

\* C33: in check_iv_rates_not_null events with equal timestamps are
\* processed in their original relative order: within a channel in source
\* order, and an insulin infusion before a nutrition infusion of the same
\* timestamp; so the violations recorded for an instant are determined by
\* the record: as many as there are steps of that instant, taken in that
\* order, after which both rates are 0.
C33_TiesInSourceOrder ==
    \A filename \in Reported("check_2") :
      LET periods == v_results["check_2"][filename].invalid_periods
      IN /\ \A ms \in C33_Instants(filename) :
              Cardinality({p \in 1..Len(periods) : periods[p].timestamp = IsoOf(ms)})
                = C33_Total(StoredEpisodes(filename), ms)
         /\ \A p \in 1..Len(periods) :
              \E ms \in C33_Instants(filename) : periods[p].timestamp = IsoOf(ms)

\* C33 witness: a file was checked in which, at one instant, insulin is
\* listed at rate 0 and then at rate 3 and nutrition at rate 0; one
\* violation was recorded for that instant and none for the nutrition
\* event at rate 0 an hour later.
C33_Witness ==
    \E filename \in Reported("check_2") :
      LET periods == v_results["check_2"][filename].invalid_periods
          eps == StoredEpisodes(filename)
      IN /\ Len(eps) = 4
         /\ eps[4]["insulinInfusion"] =
              <<<<Some(10 * 3600000), [rate |-> Some(0)]>>,
                <<Some(10 * 3600000), [rate |-> Some(3)]>>>>
         /\ eps[4]["nutritionInfusion"][1] = <<Some(10 * 3600000), [rate |-> Some(0)]>>
         /\ eps[4]["nutritionInfusion"][2] = <<Some(11 * 3600000), [rate |-> Some(0)]>>
         /\ Cardinality({p \in 1..Len(periods) :
                           periods[p].timestamp = IsoOf(10 * 3600000)}) = 1
         /\ \A p \in 1..Len(periods) : periods[p].timestamp # IsoOf(11 * 3600000)

\* The number of route-1 events of the given channel of a stored episode
\* at the instant ms that lie in the twelve hours up to the latest glucose
\* event of that same episode; none for an episode without glucose events.
C34_Own(episode, c, ms) ==
    LET glucose == StoredEvents(episode, "bloodGlucose")
        events == StoredEvents(episode, c)
    IN IF glucose = <<>> THEN 0
       ELSE Cardinality({k \in 1..Len(events) :
                           /\ Get(events[k][1]) = ms
                           /\ "route" \in DOMAIN events[k][2]
                           /\ events[k][2]["route"] = 1
                           /\ LatestOf(glucose) - 12 * 3600000 <= ms
                           /\ ms <= LatestOf(glucose)})
RECURSIVE C34_Total(_, _, _)
C34_Total(episodes, c, ms) ==
    IF episodes = <<>> THEN 0
    ELSE C34_Own(episodes[1], c, ms) + C34_Total(Tail(episodes), c, ms)
\* The instants of the events of a channel in a stored file.
C34_Instants(filename, c) ==
    UNION {{Get(StoredEvents(StoredEpisodes(filename)[e], c)[k][1]) :
              k \in 1..Len(StoredEvents(StoredEpisodes(filename)[e], c))} :
           e \in 1..Len(StoredEpisodes(filename))}
C34_Channel(type) == IF type = "infusion" THEN "insulinInfusion" ELSE "insulinBolus"

\* C34: in check_subcataneous_insulin an episode without glucose events
\* contributes no violation even when it has route-1 insulin events; in a
\* record with several episodes the window of each episode comes from its
\* own glucose events, and the violations of all episodes are gathered in
\* the one list of the file.
C34_PerEpisodeWindows ==
    \A filename \in Reported("criterion_2") :
      LET flagged == v_results["criterion_2"][filename].invalid_administrations
      IN /\ \A type \in {"infusion", "bolus"} :
              \A ms \in C34_Instants(filename, C34_Channel(type)) :
                Cardinality({k \in 1..Len(flagged) :
                               /\ flagged[k].type = type
                               /\ flagged[k].timestamp = IsoOf(ms)})
                  = C34_Total(StoredEpisodes(filename), C34_Channel(type), ms)
         /\ \A k \in 1..Len(flagged) :
              /\ flagged[k].type \in {"infusion", "bolus"}
              /\ \E ms \in C34_Instants(filename, C34_Channel(flagged[k].type)) :
                   flagged[k].timestamp = IsoOf(ms)

\* C34 witness: a file was checked whose first episode has route-1 insulin
\* and no glucose event with a value, and whose third episode ends fifteen
\* hours before the second: the list holds the four events of the second
\* episode and the bolus of the third, not the infusion of the third that
\* lies in the window of the second, and nothing of the first.
C34_Witness ==
    \E filename \in Reported("criterion_2") :
      LET flagged == v_results["criterion_2"][filename].invalid_administrations
          eps == StoredEpisodes(filename)
      IN /\ Len(eps) = 4
         /\ StoredEvents(eps[1], "bloodGlucose") = <<>>
         /\ eps[1]["insulinInfusion"] = <<<<Some(19 * 3600000), [route |-> 1]>>>>
         /\ eps[3]["insulinInfusion"] = <<<<Some(10 * 3600000), [route |-> 1]>>>>
         /\ eps[3]["insulinBolus"] = <<<<Some(4 * 3600000), [route |-> 1]>>>>
         /\ Len(flagged) = 5
         /\ flagged[5] = [timestamp |-> IsoOf(4 * 3600000), type |-> "bolus", route |-> 1]
         /\ \A k \in 1..5 : flagged[k].timestamp # IsoOf(10 * 3600000)
         /\ \A k \in 1..5 : flagged[k].type = "infusion"
                               => flagged[k].timestamp # IsoOf(19 * 3600000)

\* ------------------------------------------------ the harness, once more
\* The endpoint answered the latest request of the task with an interval,
\* which predict returned for that file.
C35_Interval(t) ==
    IF ~IsNone(response[t]) /\ Get(response[t]).kind = "Body"
       /\ DOMAIN Get(response[t]).body = {"BG5TH", "BG95TH"}
    THEN Some(Get(response[t]).body) ELSE None
\* The final glucose event of the first episode of a record.
C35_FinalEvent(record) ==
    record["episodes"][1]["bloodGlucose"][Len(record["episodes"][1]["bloodGlucose"])]

\* C35: for each file the harness takes predictionTime and groundTruth from
\* the final glucose event of the first episode only, passes exactly that
\* predictionTime to predict, and sets the outcome's midpoint to
\* (low + high) / 2 of the interval returned for that file.
C35_LastEventAndMidpoint ==
    \A t \in Tasks :
      /\ ~IsNone(actual_value[t]) =>
           /\ prediction_time[t] = C35_FinalEvent(Get(patient_data[t]))[1]
           /\ Get(actual_value[t]) = C35_FinalEvent(Get(patient_data[t]))[2]
      /\ (pc[t] = "done" /\ ~IsNone(C35_Interval(t))) =>
           /\ ~IsNone(Get(futures[t]).outcome)
           /\ Get(Get(futures[t]).outcome).interval_center
                = Some((Get(C35_Interval(t)).BG5TH + Get(C35_Interval(t)).BG95TH) \div 2)

\* What the code does for C35's files: the time and the value are those
\* of the final glucose event of the first episode, but no outcome ever
\* carries a midpoint: the statement that computes it comes after the call
\* that fails for every file.
C35_ExtractedButNoMidpoint ==
    \A t \in Tasks :
      /\ ~IsNone(actual_value[t]) =>
           /\ prediction_time[t] = C35_FinalEvent(Get(patient_data[t]))[1]
           /\ Get(actual_value[t]) = C35_FinalEvent(Get(patient_data[t]))[2]
           /\ Len(Get(patient_data[t])["episodes"]) = 2 =>
                Get(actual_value[t]) # C35_FinalEvent(
                    [episodes |-> Tail(Get(patient_data[t])["episodes"])])[2]
      /\ (pc[t] = "done" /\ ~IsNone(futures[t]) /\ ~IsNone(Get(futures[t]).outcome)) =>
           Get(Get(futures[t]).outcome).interval_center = None

\* ------------------------------------------------ predict, once more
\* The request of this step was answered with a status that is not 2xx.
C36_NonOkAnswer(t) ==
    /\ requests'[t] = requests[t] + 1
    /\ response'[t] = Some([kind |-> "HTTPError"])

\* C36: a response with a non-2xx status is handled like a transient
\* transport failure: before the last attempt predict sleeps
\* retry_delay * 2^attempt and requests again; at the last attempt it
\* raises RuntimeError; no interval is returned or stored from such a
\* response.
C36_NonOkStatusRetried ==
    [][\A t \in Threads :
         /\ C36_NonOkAnswer(t) =>
              /\ IF attempt[t] < num_retries[t] - 1
                 THEN /\ pc'[t] = "sleep"
                      /\ sleeps'[t] = Append(sleeps[t],
                           [attempt |-> attempt[t],
                            wait_time |-> retry_delay[t] * (2 ^ attempt[t])])
                      /\ exc'[t] = exc[t]
                 ELSE /\ pc'[t] = "raised"
                      /\ exc'[t] = Some("RuntimeError: API request failed")
                      /\ sleeps'[t] = sleeps[t]
              /\ pred_interval'[t] = pred_interval[t]
              /\ _last_prediction_interval' = _last_prediction_interval
              /\ _last_response' = _last_response
         /\ (pc[t] = "sleep" /\ pc'[t] # "sleep") =>
              /\ pc'[t] = "request"
              /\ attempt'[t] = attempt[t] + 1]_vars

\* C36 witness: with num_retries = 3 the third request was answered with
\* an error status after two sleeps, and predict raised.
C36_Witness ==
    /\ pc[Client] = "raised"
    /\ num_retries[Client] = 3
    /\ requests[Client] = 3
    /\ response[Client] = Some([kind |-> "HTTPError"])
    /\ Len(sleeps[Client]) = 2
    /\ sleeps[Client][2].wait_time = 2 * retry_delay[Client]
    /\ exc[Client] = Some("RuntimeError: API request failed")
    /\ IsNone(pred_interval[Client])

\* C36 second witness: an error status before the last attempt put
\* predict to sleep.
C36_WitnessSleeping ==
    /\ pc[Client] = "sleep"
    /\ response[Client] = Some([kind |-> "HTTPError"])
    /\ attempt[Client] = 1

\* The request of this step was answered 2xx with a body that is not JSON.
C37_BadJsonAnswer(t) ==
    /\ requests'[t] = requests[t] + 1
    /\ response'[t] = Some([kind |-> "BadJSON"])

\* C37: a 2xx response whose body cannot be parsed as JSON is a parsing
\* error and is not retried: predict raises after that single request
\* without sleeping or issuing another request.
C37_BadJsonNotRetried ==
    [][\A t \in Threads :
         C37_BadJsonAnswer(t) =>
           /\ pc'[t] = "raised"
           /\ sleeps'[t] = sleeps[t]]_vars

\* What the code does for C37's response: the exception of response.json()
\* is a RequestException, so before the last attempt predict sleeps and
\* requests again, and at the last attempt it raises "API request failed".
C37_BadJsonRetried ==
    [][\A t \in Threads :
         C37_BadJsonAnswer(t) =>
           IF attempt[t] < num_retries[t] - 1
           THEN /\ pc'[t] = "sleep"
                /\ sleeps'[t] = Append(sleeps[t],
                     [attempt |-> attempt[t],
                      wait_time |-> retry_delay[t] * (2 ^ attempt[t])])
           ELSE /\ pc'[t] = "raised"
                /\ exc'[t] = Some("RuntimeError: API request failed")]_vars

\* C38: for every valid record and every num_retries, 0 included, a call
\* of predict either returns a dictionary with both BG5TH and BG95TH or
\* raises; it never returns None.
C38_IntervalOrRaise ==
    \A t \in Threads :
      pc[t] = "returned" =>
        /\ ~IsNone(pred_interval[t])
        /\ DOMAIN Get(pred_interval[t]) = {"BG5TH", "BG95TH"}

\* What the code does for C38's call: with num_retries = 0 the loop body
\* never runs and predict returns None without a request; with
\* num_retries >= 1 a returned value is an interval with both bounds.
C38_NoneWithoutAttempts ==
    \A t \in Threads :
      pc[t] = "returned" =>
        IF num_retries[t] = 0
        THEN IsNone(pred_interval[t]) /\ requests[t] = 0
        ELSE /\ ~IsNone(pred_interval[t])
             /\ DOMAIN Get(pred_interval[t]) = {"BG5TH", "BG95TH"}

\* The checks whose result carries a list of violations, with the key of
\* the list.
C39_ListOf ==
    [criterion_1 |-> "invalid_values", criterion_2 |-> "invalid_administrations",
     check_1 |-> "missing_fields", check_2 |-> "invalid_periods",
     check_3 |-> "invalid_statuses"]

\* The result of a check after its loops have recorded the first j
\* violations of the list it ends with.
C39_After(check, filename, j) ==
    LET key == C39_ListOf[check]
    IN Flag([valid |-> TRUE] @@ (key :> <<>>), key,
            SubSeq(v_results[check][filename][key], 1, j))

\* C39: in every validator result that carries a violation list (plausible
\* range, subcutaneous insulin, required fields, zero infusion, diabetic
\* status), valid is true exactly when the list is empty, after every
\* recorded violation and in the returned result, and valid never goes
\* back from false to true while a file is processed.
C39_ValidIffNoEvidence ==
    \A check \in DOMAIN C39_ListOf :
      \A filename \in Reported(check) :
        LET key == C39_ListOf[check]
            entry == v_results[check][filename]
            n == Len(entry[key])
        IN /\ entry.valid = (entry[key] = <<>>)
           /\ C39_After(check, filename, n) = entry
           /\ \A j \in 0..n :
                LET now == C39_After(check, filename, j)
                IN /\ now.valid = (now[key] = <<>>)
                   /\ (j < n /\ ~now.valid) => ~C39_After(check, filename, j + 1).valid

\* C39 witness: a batch reported one file as invalid under the
\* zero-infusion check with two or more periods, and another file as valid
\* under the same check with no period.
C39_Witness ==
    \E bad, good \in Reported("check_2") :
      /\ ~v_results["check_2"][bad].valid
      /\ Len(v_results["check_2"][bad].invalid_periods) >= 2
      /\ v_results["check_2"][good].valid
      /\ v_results["check_2"][good].invalid_periods = <<>>

\* C39 second witness: a file without the "episodes" key is reported as
\* invalid under the required-fields check with the one entry "episodes".
C39_WitnessNoEpisodes ==
    \E filename \in Reported("check_1") :
      /\ ~v_results["check_1"][filename].valid
      /\ v_results["check_1"][filename].missing_fields = <<"episodes">>


====
